---- MODULE Spec2Model ----
(***************************************************************************)
(* A model of the Monkey tree-walking evaluator (monkey/evaluator,         *)
(* monkey/object).  The recursive Go functions are recursive operators     *)
(* that thread the mutable part of the run (the environment heap, the      *)
(* allocation counter, the trace of Eval calls) through every call; the    *)
(* statement loop of evalProgram is the state machine.                     *)
(***************************************************************************)
EXTENDS Integers, Sequences, FiniteSets, TLC

VARIABLES
    program,    \* the statements of Program.Statements evaluated so far
    envs,       \* the heap of Environment objects; envs[1] is the global one
    nalloc,     \* number of Function/ReturnValue/Error objects allocated
    result,     \* evalProgram's local variable result
    status,     \* "running", "returned", "panic" or "overflow"
    log,        \* trace of the Eval calls made for the last statement
    arrays,     \* the heap of Array.Elements slices, by Array reference
    call,       \* one function of the evaluator applied on its own: the callee
                \* or operator fn, the arguments args, the result out
    lexer,      \* the Lexer: input, position, readPosition, ch
    tokens,     \* the tokens NextToken has returned so far, each with the
                \* position of the Lexer before and after the call
    parser      \* the Parser: l, curToken, peekToken, errors

vars ==
    <<program, envs, nalloc, result, status, log, arrays, call, lexer, tokens,
      parser>>

----------------------------------------------------------------------------
(* Bounds of the model.                                                    *)

\* integer literals of the generated statements range over 0..MaxInt
MaxInt == 1
\* number of statements of a generated program
MaxStmts == 2
\* nesting of function applications after which the host stack is taken
\* to be exhausted (section 5 of the specification: a fatal host error)
MaxCallDepth == 2
\* number of Array objects after which no further built-in is called
MaxArrays == 4
\* number of Environment objects after which no further one is created
MaxEnvs == 2
\* length of the inputs given to the Lexer
MaxInputLen == 3
\* number of calls of NextToken beyond one for each byte of the input
MaxPastEnd == 2
\* digits of the short integer literals the parser is given
MaxDigits == 3
\* tokens between the parentheses of a function literal
MaxParams == 3
\* words of the free source texts the parser is given
MaxTokens == 3

----------------------------------------------------------------------------
(* Go's int64 and its operators, as evalIntegerInfixExpression and         *)
(* evalMinusPrefixOperatorExpression use them on Integer.Value.            *)

\* an int64 is its two's complement representation: four 16-bit limbs,
\* least significant first (the integers of the model checker are 32 bits
\* wide, so that Go's int64 cannot be one of them)
Limb == 2^16
Byte == 2^8

\* int64(n) for a number n that TLC can hold
Int64(n) ==
    IF n >= 0 THEN <<n % Limb, n \div Limb, 0, 0>>
    ELSE <<Limb - 1 - ((0 - n - 1) % Limb), Limb - 1 - ((0 - n - 1) \div Limb),
           Limb - 1, Limb - 1>>

IsNeg64(a) == a[4] >= Limb \div 2

\* F on the value of x, on the values of x and y, and of x, y and z: each
\* operand is evaluated once
Then(x, F(_)) == CHOOSE r \in {F(v) : v \in {x}} : TRUE
Then2(x, y, F(_, _)) == CHOOSE r \in {F(v[1], v[2]) : v \in {<<x, y>>}} : TRUE
Then3(x, y, z, F(_, _, _)) ==
    CHOOSE r \in {F(v[1], v[2], v[3]) : v \in {<<x, y, z>>}} : TRUE

\* a + b: the carry out of the top limb is dropped
Add64(a, b) ==
    LET sum(x, y) ==
            LET s[k \in 0..4] ==
                    IF k = 0 THEN 0 ELSE x[k] + y[k] + s[k - 1] \div Limb
            IN  <<s[1] % Limb, s[2] % Limb, s[3] % Limb, s[4] % Limb>>
    IN  Then2(a, b, sum)

\* -a: complement and increment
Neg64(a) ==
    Add64(<<Limb - 1 - a[1], Limb - 1 - a[2], Limb - 1 - a[3], Limb - 1 - a[4]>>,
          <<1, 0, 0, 0>>)

Sub64(a, b) == Add64(a, Neg64(b))

\* a < b on the unsigned readings
LessU64(a, b) ==
    \E k \in 1..4 : a[k] < b[k] /\ \A j \in (k + 1)..4 : a[j] = b[j]

\* a < b
Less64(a, b) ==
    IF IsNeg64(a) # IsNeg64(b) THEN IsNeg64(a) ELSE LessU64(a, b)

\* the eight bytes of a, least significant first, and back
Bytes(a) ==
    <<a[1] % Byte, a[1] \div Byte, a[2] % Byte, a[2] \div Byte,
      a[3] % Byte, a[3] \div Byte, a[4] % Byte, a[4] \div Byte>>
Limbs(x) ==
    <<x[1] + Byte * x[2], x[3] + Byte * x[4], x[5] + Byte * x[6],
      x[7] + Byte * x[8]>>

\* a * b: the low eight bytes of the schoolbook product
Mul64(a, b) ==
    LET product(x, y) ==
            LET col[k \in 1..8] ==
                    LET p[i \in 0..k] ==
                            IF i = 0 THEN 0 ELSE p[i - 1] + x[i] * y[k + 1 - i]
                    IN  p[k]
                t[k \in 0..8] ==
                    IF k = 0 THEN 0 ELSE col[k] + t[k - 1] \div Byte
            IN  Limbs(<<t[1] % Byte, t[2] % Byte, t[3] % Byte, t[4] % Byte,
                        t[5] % Byte, t[6] % Byte, t[7] % Byte, t[8] % Byte>>)
        bytes(u, v) == Then2(Bytes(u), Bytes(v), product)
    IN  Then2(a, b, bytes)

\* y * c for a byte c: nine bytes
MulByte(y, c) ==
    LET t[k \in 0..9] ==
            IF k = 0 THEN 0
            ELSE (IF k <= 8 THEN y[k] * c ELSE 0) + t[k - 1] \div Byte
    IN  <<t[1] % Byte, t[2] % Byte, t[3] % Byte, t[4] % Byte, t[5] % Byte,
          t[6] % Byte, t[7] % Byte, t[8] % Byte, t[9] % Byte>>

\* p <= r for two numbers of nine bytes
LeqBytes(p, r) ==
    ~ \E k \in 1..9 : p[k] > r[k] /\ \A j \in (k + 1)..9 : p[j] = r[j]

\* r - p for p <= r
SubBytes(r, p) ==
    LET t[k \in 0..9] ==
            IF k = 0 THEN Byte ELSE r[k] - p[k] + Byte - 1 + t[k - 1] \div Byte
    IN  <<t[1] % Byte, t[2] % Byte, t[3] % Byte, t[4] % Byte, t[5] % Byte,
          t[6] % Byte, t[7] % Byte, t[8] % Byte, t[9] % Byte>>

\* the largest byte c with y * c <= r, found bit by bit from the top: d is
\* the byte so far and bit the next power of two to try
RECURSIVE QuoByte(_, _, _, _)
QuoByte(y, r, bit, d) ==
    IF bit = 0 THEN d
    ELSE QuoByte(y, r, bit \div 2,
                 IF LeqBytes(MulByte(y, d + bit), r) THEN d + bit ELSE d)

\* long division of the unsigned x by the unsigned y # 0, one byte of the
\* quotient per step from the top: rem is the remainder so far (below y)
RECURSIVE DivBytes(_, _, _, _, _)
DivBytes(x, y, k, rem, q) ==
    IF k = 0 THEN q
    ELSE LET r == <<x[k]>> \o SubSeq(rem, 1, 8)
             d == QuoByte(y, r, Byte \div 2, 0)
         IN  DivBytes(x, y, k - 1, SubBytes(r, MulByte(y, d)),
                      [q EXCEPT ![k] = d])

DivU64(a, b) ==
    Limbs(DivBytes(Bytes(a), Bytes(b), 8, [k \in 1..9 |-> 0], [k \in 1..8 |-> 0]))

\* a variant that rounds the quotient down instead of toward zero
Quo64Floor(a, b) ==
    LET ua == IF IsNeg64(a) THEN Neg64(a) ELSE a
        ub == IF IsNeg64(b) THEN Neg64(b) ELSE b
        q == DivU64(ua, ub)
    IN  IF IsNeg64(a) = IsNeg64(b) THEN q
        ELSE IF Mul64(q, ub) = ua THEN Neg64(q)
        ELSE Sub64(Neg64(q), Int64(1))

\* a / b for b # 0: the quotient of the magnitudes with the sign of the
\* exact quotient, that is truncated toward zero; the magnitude of the
\* minimum is 2^63, so that min / -1 is min
Quo64(a, b) ==
    LET q == DivU64(IF IsNeg64(a) THEN Neg64(a) ELSE a,
                    IF IsNeg64(b) THEN Neg64(b) ELSE b)
    IN  IF IsNeg64(a) # IsNeg64(b) THEN Neg64(q) ELSE q

----------------------------------------------------------------------------
(* object.ObjectType tags and the objects of monkey/object.                *)

NULL_OBJ == "NULL"
ERROR_OBJ == "ERROR"
INTEGER_OBJ == "INTEGER"
BOOLEAN_OBJ == "BOOLEAN"
RETURN_VALUE_OBJ == "RETURN_VALUE"
FUNCTION_OBJ == "FUNCTION"
BUILTIN_OBJ == "BUILTIN"
STRING_OBJ == "STRING"
ARRAY_OBJ == "ARRAY"

\* the nil interface value (Go's zero object.Object); it has no Type()
NIL == [Type |-> "nil"]

NULL == [Type |-> NULL_OBJ]
TRUE_OBJ == [Type |-> BOOLEAN_OBJ, BoolValue |-> TRUE]
FALSE_OBJ == [Type |-> BOOLEAN_OBJ, BoolValue |-> FALSE]

\* &object.Integer{Value: value}
IntegerObject(value) == [Type |-> INTEGER_OBJ, Value |-> value]

\* the Integer object of a number written in the program text
Integer(n) == IntegerObject(Int64(n))

\* &object.ReturnValue{Value: val}; id is the identity of the allocation
ReturnValue(id, val) == [Type |-> RETURN_VALUE_OBJ, id |-> id, Inner |-> val]

\* &object.Error{Message: msg}
Error(id, msg) == [Type |-> ERROR_OBJ, id |-> id, Message |-> msg]

\* &object.Function{Parameters: params, Env: env, Body: body}
Function(id, params, body, env) ==
    [Type |-> FUNCTION_OBJ, id |-> id, Parameters |-> params,
     Body |-> body, Env |-> env]

\* &object.String{Value: v}
String(v) == [Type |-> STRING_OBJ, Str |-> v]

\* &object.Array{Elements: ...}; ref is where its Elements are in the heap
Array(ref) == [Type |-> ARRAY_OBJ, ref |-> ref]

\* &object.Builtin{Fn: ...}, named by its key in the builtins table
Builtin(name) == [Type |-> BUILTIN_OBJ, Name |-> name]

\* the keys of the builtins table
BuiltinNames == {"len", "puts", "first", "last", "rest", "push"}

builtins == [n \in BuiltinNames |-> Builtin(n)]

----------------------------------------------------------------------------
(* monkey/ast nodes, as the parser builds them.                            *)

IntegerLiteral(v) == [kind |-> "IntegerLiteral", Value |-> v]
BooleanLit(b) == [kind |-> "Boolean", BoolValue |-> b]
Identifier(n) == [kind |-> "Identifier", Name |-> n]
PrefixExpression(op, right) ==
    [kind |-> "PrefixExpression", Operator |-> op, Right |-> right]
InfixExpression(op, left, right) ==
    [kind |-> "InfixExpression", Operator |-> op, Left |-> left, Right |-> right]
BlockStatement(stmts) == [kind |-> "BlockStatement", Statements |-> stmts]
\* IfExpression.Alternative is nil when there is no else branch
NoNode == [kind |-> "nil"]
IfExpression(cond, cons, alt) ==
    [kind |-> "IfExpression", Condition |-> cond, Consequence |-> cons,
     Alternative |-> alt]
FunctionLiteral(params, body) ==
    [kind |-> "FunctionLiteral", Parameters |-> params, Body |-> body]
CallExpression(fn, args) ==
    [kind |-> "CallExpression", Function |-> fn, Arguments |-> args]
LetStatement(name, value) ==
    [kind |-> "LetStatement", Name |-> name, LetValue |-> value]
ReturnStatement(value) == [kind |-> "ReturnStatement", ReturnValue |-> value]
ExpressionStatement(e) == [kind |-> "ExpressionStatement", Expression |-> e]

----------------------------------------------------------------------------
(* monkey/object/environment.go                                            *)

\* NewEnvironment(): an empty store and no outer environment (0 is nil)
NewEnvironment == [store |-> [n \in {} |-> NIL], outer |-> 0]

\* a variant that forgets env.outer = outer
NewEnclosedEnvironmentDetached(outer) == NewEnvironment

NewEnclosedEnvironment(outer) == [NewEnvironment EXCEPT !.outer = outer]

\* Environment.Get: the pair (obj, ok)
RECURSIVE Get(_, _, _)
Get(heap, e, name) ==
    IF name \in DOMAIN heap[e].store
    THEN [obj |-> heap[e].store[name], ok |-> TRUE]
    ELSE IF heap[e].outer # 0
         THEN Get(heap, heap[e].outer, name)
         ELSE [obj |-> NIL, ok |-> FALSE]

\* a variant that assigns where the name is bound already
RECURSIVE SetWhereBound(_, _, _, _)
SetWhereBound(heap, e, name, val) ==
    IF name \notin DOMAIN heap[e].store /\ heap[e].outer # 0
           /\ Get(heap, heap[e].outer, name).ok
    THEN SetWhereBound(heap, heap[e].outer, name, val)
    ELSE [heap EXCEPT ![e].store =
             [n \in (DOMAIN @) \cup {name} |-> IF n = name THEN val ELSE @[n]]]

\* Environment.Set: the heap after e.store[name] = val
Set(heap, e, name, val) ==
    [heap EXCEPT ![e].store =
        [n \in (DOMAIN @) \cup {name} |-> IF n = name THEN val ELSE @[n]]]

----------------------------------------------------------------------------
(* The run threaded through the evaluator: s.envs, s.arrays, s.nalloc and   *)
(* s.log are the heaps, the allocation counter and the trace; s.depth is   *)
(* the number of active Eval calls, s.calls the number of active           *)
(* applyFunction calls; s.st is "ok" until the Go runtime aborts the       *)
(* evaluation.                                                             *)

isError(obj) == obj # NIL /\ obj.Type = ERROR_OBJ

\* what a call hands back: the object returned and the run after the call;
\* ok: the run was not aborted; stop: it was aborted or the object is an
\* Error, the two cases in which the caller does not go on
R(val, s) ==
    [val |-> val, s |-> s, ok |-> s.st = "ok",
     stop |-> s.st # "ok" \/ isError(val)]

\* a Go run-time panic: the evaluation is aborted, no value is returned
Panic(s) == R(NIL, [s EXCEPT !.st = "panic"])

Event(ev, node, env, depth, val) ==
    [ev |-> ev, node |-> node, env |-> env, depth |-> depth, val |-> val]

\* newError: a fresh Error object
newError(msg, s) ==
    R(Error(s.nalloc + 1, msg), [s EXCEPT !.nalloc = @ + 1])

nativeBoolToBooleanObject(input) == IF input THEN TRUE_OBJ ELSE FALSE_OBJ

isTruthy(obj) ==
    CASE obj = NULL -> FALSE
      [] obj = TRUE_OBJ -> TRUE
      [] obj = FALSE_OBJ -> FALSE
      [] OTHER -> TRUE

evalBangOperatorExpression(right) ==
    CASE right = TRUE_OBJ -> FALSE_OBJ
      [] right = FALSE_OBJ -> TRUE_OBJ
      [] right = NULL -> TRUE_OBJ
      [] OTHER -> FALSE_OBJ

\* right.Type() on a nil interface is a nil dereference
evalMinusPrefixOperatorExpression(right, s) ==
    IF right = NIL THEN Panic(s)
    ELSE IF right.Type # INTEGER_OBJ
         THEN newError("unknown operator: -" \o right.Type, s)
         ELSE R(IntegerObject(Neg64(right.Value)), s)

evalPrefixExpression(operator, right, s) ==
    CASE operator = "!" -> R(evalBangOperatorExpression(right), s)
      [] operator = "-" -> evalMinusPrefixOperatorExpression(right, s)
      [] OTHER -> IF right = NIL THEN Panic(s)
                  ELSE newError("unknown operator: " \o operator \o right.Type, s)

\* leftVal / rightVal panics when rightVal is 0
evalIntegerInfixExpression(operator, left, right, s) ==
    LET leftVal == left.Value
        rightVal == right.Value
    IN  CASE operator = "+" -> R(IntegerObject(Add64(leftVal, rightVal)), s)
          [] operator = "-" -> R(IntegerObject(Sub64(leftVal, rightVal)), s)
          [] operator = "*" -> R(IntegerObject(Mul64(leftVal, rightVal)), s)
          [] operator = "/" -> IF rightVal = Int64(0) THEN Panic(s)
                               ELSE R(IntegerObject(Quo64(leftVal, rightVal)), s)
          [] operator = "<" ->
                R(nativeBoolToBooleanObject(Less64(leftVal, rightVal)), s)
          [] operator = ">" ->
                R(nativeBoolToBooleanObject(Less64(rightVal, leftVal)), s)
          [] operator = "==" -> R(nativeBoolToBooleanObject(leftVal = rightVal), s)
          [] operator = "!=" -> R(nativeBoolToBooleanObject(leftVal # rightVal), s)
          [] OTHER -> newError("unknown operator: " \o left.Type \o " "
                                   \o operator \o " " \o right.Type, s)

\* a variant that tests the type tags before the operator
evalInfixExpressionTypesFirst(operator, left, right, s) ==
    IF left = NIL \/ right = NIL THEN Panic(s)
    ELSE IF left.Type = INTEGER_OBJ /\ right.Type = INTEGER_OBJ
         THEN evalIntegerInfixExpression(operator, left, right, s)
    ELSE IF left.Type # right.Type
         THEN newError("type mismatch: " \o left.Type \o " " \o operator
                           \o " " \o right.Type, s)
    ELSE IF operator = "==" THEN R(nativeBoolToBooleanObject(left = right), s)
    ELSE IF operator = "!=" THEN R(nativeBoolToBooleanObject(left # right), s)
         ELSE newError("unknown operator: " \o left.Type \o " " \o operator
                           \o " " \o right.Type, s)

\* the switch of evalInfixExpression; left.Type() and right.Type() are
\* called in the order of the cases, && short-circuits, and either call
\* panics on a nil operand; left == right compares object identities
evalInfixExpression(operator, left, right, s) ==
    IF left = NIL THEN Panic(s)
    ELSE IF left.Type = INTEGER_OBJ /\ right = NIL THEN Panic(s)
    ELSE IF left.Type = INTEGER_OBJ /\ right.Type = INTEGER_OBJ
         THEN evalIntegerInfixExpression(operator, left, right, s)
    ELSE IF operator = "==" THEN R(nativeBoolToBooleanObject(left = right), s)
    ELSE IF operator = "!=" THEN R(nativeBoolToBooleanObject(left # right), s)
    ELSE IF right = NIL THEN Panic(s)
    ELSE IF left.Type # right.Type
         THEN newError("type mismatch: " \o left.Type \o " " \o operator
                           \o " " \o right.Type, s)
         ELSE newError("unknown operator: " \o left.Type \o " " \o operator
                           \o " " \o right.Type, s)

\* the arity check of the built-ins
wrongNumberOfArguments(got, want, s) ==
    newError("wrong number of arguments. got=" \o ToString(got)
                 \o ", want=" \o ToString(want), s)

\* the messages of the built-ins quote the name with grave accents, which
\* a TLA+ string cannot hold: they are written as apostrophes here
mustBeArray(name, arg, s) ==
    newError("argument to '" \o name \o "' must be ARRAY, got " \o arg.Type, s)

\* a variant that stores the new elements over the array allocated last
newArrayInPlace(elements, s) ==
    R(Array(Len(s.arrays)), [s EXCEPT !.arrays[Len(s.arrays)] = elements])

\* &object.Array{Elements: newElements}: a new slice in the heap
newArray(elements, s) ==
    R(Array(Len(s.arrays) + 1), [s EXCEPT !.arrays = Append(@, elements)])

\* builtins[name].Fn(args...); args[0].Type() and arg.Inspect() panic on
\* a nil argument; what puts prints is not part of the model
callBuiltin(name, args, s) ==
    CASE name = "len" ->
            IF Len(args) # 1 THEN wrongNumberOfArguments(Len(args), 1, s)
            ELSE IF args[1] = NIL THEN Panic(s)
            ELSE IF args[1].Type = ARRAY_OBJ
                 THEN R(Integer(Len(s.arrays[args[1].ref])), s)
            ELSE IF args[1].Type = STRING_OBJ
                 THEN R(Integer(Len(args[1].Str)), s)
            ELSE newError("argument to 'len' not supported, got "
                              \o args[1].Type, s)
      [] name = "puts" ->
            IF \E k \in 1..Len(args) : args[k] = NIL THEN Panic(s)
            ELSE R(NULL, s)
      [] name \in {"first", "last", "rest"} ->
            IF Len(args) # 1 THEN wrongNumberOfArguments(Len(args), 1, s)
            ELSE IF args[1] = NIL THEN Panic(s)
            ELSE IF args[1].Type # ARRAY_OBJ THEN mustBeArray(name, args[1], s)
            ELSE LET elements == s.arrays[args[1].ref]
                     length == Len(elements)
                 IN  IF length = 0 THEN R(NULL, s)
                     ELSE (CASE name = "first" -> R(elements[1], s)
                             [] name = "last" -> R(elements[length], s)
                             [] name = "rest" ->
                                   newArray(SubSeq(elements, 2, length), s))
      [] name = "push" ->
            IF Len(args) # 2 THEN wrongNumberOfArguments(Len(args), 2, s)
            ELSE IF args[1] = NIL THEN Panic(s)
            ELSE IF args[1].Type # ARRAY_OBJ THEN mustBeArray(name, args[1], s)
            ELSE newArray(Append(s.arrays[args[1].ref], args[2]), s)

\* evalIdentifier: env.Get, and an Error on a miss
evalIdentifier(node, env, s) ==
    LET got == Get(s.envs, env, node.Name)
    IN  IF ~got.ok
        THEN newError("identifier not found: " \o node.Name, s)
        ELSE R(got.obj, s)

unwrapReturnValue(obj) ==
    IF obj # NIL /\ obj.Type = RETURN_VALUE_OBJ THEN obj.Inner ELSE obj

\* the loop of extendFunctionEnv from parameter i on; args[paramIdx]
\* panics when the argument slice is shorter than the parameter list
RECURSIVE bindParameters(_, _, _, _, _)
bindParameters(params, args, i, e, s) ==
    IF i > Len(params) THEN R(NIL, s)
    ELSE IF i > Len(args) THEN Panic(s)
    ELSE bindParameters(params, args, i + 1, e,
                        [s EXCEPT
                            !.envs = Set(@, e, params[i], args[i]),
                            !.log = Append(@, Event("set", Identifier(params[i]),
                                                    e, s.depth, args[i]))])

\* a variant that captures a copy of the current frame
evalFunctionLiteralSnapshot(node, env, s) ==
    LET heap == Append(s.envs, s.envs[env])
    IN  R(Function(s.nalloc + 1, node.Parameters, node.Body, Len(heap)),
          [s EXCEPT !.nalloc = @ + 1, !.envs = heap])

\* Eval on a FunctionLiteral: &object.Function{Parameters: params,
\* Env: env, Body: body}; Env is the environment itself, not a copy
evalFunctionLiteral(node, env, s) ==
    R(Function(s.nalloc + 1, node.Parameters, node.Body, env),
      [s EXCEPT !.nalloc = @ + 1])

\* a variant whose new frame starts with the bindings of the captured one
extendFunctionEnvCopying(fn, args, s) ==
    LET heap == Append(s.envs, [store |-> s.envs[fn.Env].store,
                                outer |-> fn.Env])
    IN  bindParameters(fn.Parameters, args, 1, Len(heap),
                       [s EXCEPT !.envs = heap])

\* extendFunctionEnv: the new frame is the last one of the heap
extendFunctionEnv(fn, args, s) ==
    LET heap == Append(s.envs, NewEnclosedEnvironment(fn.Env))
    IN  bindParameters(fn.Parameters, args, 1, Len(heap),
                       [s EXCEPT !.envs = heap])

RECURSIVE Eval(_, _, _)
RECURSIVE evalBlockStatement(_, _, _, _)
RECURSIVE evalIfExpression(_, _, _)
RECURSIVE evalExpressions(_, _, _, _, _)
RECURSIVE applyFunction(_, _, _)

\* a variant that unwraps the ReturnValue it stops at, as evalProgram does
evalBlockStatementUnwrapping(block, i, env, rs) ==
    LET r == Eval(block.Statements[i], env, rs.s)
    IN  CASE i > Len(block.Statements) -> rs
          [] r.stop -> r
          [] r.val # NIL /\ r.val.Type = RETURN_VALUE_OBJ ->
                R(unwrapReturnValue(r.val), r.s)
          [] OTHER -> evalBlockStatement(block, i + 1, env, r)

\* the loop of evalBlockStatement from statement i on; rs.val is the
\* value of the statement before it; the loop returns result as it is
\* when its type is ERROR_OBJ (r.stop) or RETURN_VALUE_OBJ
evalBlockStatement(block, i, env, rs) ==
    LET r == Eval(block.Statements[i], env, rs.s)
    IN  CASE i > Len(block.Statements) -> rs
          [] r.stop -> r
          [] r.val # NIL /\ r.val.Type = RETURN_VALUE_OBJ -> r
          [] OTHER -> evalBlockStatement(block, i + 1, env, r)

evalIfExpression(ie, env, s) ==
    LET condition == Eval(ie.Condition, env, s)
    IN  CASE condition.stop -> condition
          [] isTruthy(condition.val) -> Eval(ie.Consequence, env, condition.s)
          [] ie.Alternative # NoNode -> Eval(ie.Alternative, env, condition.s)
          [] OTHER -> R(NULL, condition.s)

\* a slice of objects handed back by evalExpressions
Slice(objs, s) ==
    [val |-> objs, s |-> s, ok |-> s.st = "ok", stop |-> s.st # "ok"]

\* a variant that goes on after an Error
evalExpressionsNoStop(exps, i, env, acc, s) ==
    LET evaluated == Eval(exps[i], env, s)
    IN  CASE i > Len(exps) -> Slice(acc, s)
          [] ~evaluated.ok -> Slice(<<>>, evaluated.s)
          [] OTHER -> evalExpressions(exps, i + 1, env,
                                      Append(acc, evaluated.val), evaluated.s)

\* the loop of evalExpressions from expression i on; acc is the slice
\* built so far
evalExpressions(exps, i, env, acc, s) ==
    LET evaluated == Eval(exps[i], env, s)
    IN  CASE i > Len(exps) -> Slice(acc, s)
          [] evaluated.stop ->
                IF evaluated.ok THEN Slice(<<evaluated.val>>, evaluated.s)
                ELSE Slice(<<>>, evaluated.s)
          [] OTHER -> evalExpressions(exps, i + 1, env,
                                      Append(acc, evaluated.val), evaluated.s)

\* applyFunction: only a *object.Function is applied; fn.Type() on nil
\* panics; the body is evaluated in the frame made by extendFunctionEnv
applyFunction(fn, args, s) ==
    LET ext == extendFunctionEnv(fn, args, s)
        extendedEnv == Len(ext.s.envs)
        evaluated ==
            Eval(fn.Body, extendedEnv,
                 [ext.s EXCEPT
                     !.calls = @ + 1,
                     !.log = Append(@, Event("apply", fn.Body, extendedEnv,
                                             s.depth, fn))])
    IN  CASE fn = NIL -> Panic(s)
          [] fn.Type # FUNCTION_OBJ -> newError("not a function: " \o fn.Type, s)
          [] s.calls >= MaxCallDepth -> R(NIL, [s EXCEPT !.st = "overflow"])
          [] ~ext.ok -> ext
          [] evaluated.ok ->
                R(unwrapReturnValue(evaluated.val),
                  [evaluated.s EXCEPT !.calls = @ - 1])
          [] OTHER -> evaluated

\* Eval: the type switch on the node. One call is traced by an "enter"
\* and, unless the run is aborted inside it, an "exit" event carrying the
\* object returned; every env.Set is traced by a "set" event, every
\* application of a Function by an "apply" event carrying the Function
\* and its new frame
Eval(node, env, s) ==
    LET entered ==
            [s EXCEPT !.depth = @ + 1,
                      !.log = Append(@, Event("enter", node, env,
                                              s.depth + 1, NIL))]
        r ==
            CASE node.kind = "BlockStatement" ->
                    evalBlockStatement(node, 1, env, R(NIL, entered))
              [] node.kind = "ExpressionStatement" ->
                    Eval(node.Expression, env, entered)
              [] node.kind = "ReturnStatement" ->
                    LET val == Eval(node.ReturnValue, env, entered)
                    IN  IF val.stop THEN val
                        ELSE R(ReturnValue(val.s.nalloc + 1, val.val),
                               [val.s EXCEPT !.nalloc = @ + 1])
              [] node.kind = "LetStatement" ->
                    LET val == Eval(node.LetValue, env, entered)
                    IN  IF val.stop THEN val
                        ELSE R(NIL,
                               [val.s EXCEPT
                                   !.envs = Set(@, env, node.Name, val.val),
                                   !.log = Append(@, Event("set", node, env,
                                                           val.s.depth,
                                                           val.val))])
              [] node.kind = "IntegerLiteral" ->
                    R(Integer(node.Value), entered)
              [] node.kind = "Boolean" ->
                    R(nativeBoolToBooleanObject(node.BoolValue), entered)
              [] node.kind = "PrefixExpression" ->
                    LET right == Eval(node.Right, env, entered)
                    IN  IF right.stop THEN right
                        ELSE evalPrefixExpression(node.Operator, right.val,
                                                  right.s)
              [] node.kind = "InfixExpression" ->
                    LET left == Eval(node.Left, env, entered)
                        right == Eval(node.Right, env, left.s)
                    IN  CASE left.stop -> left
                          [] right.stop -> right
                          [] OTHER ->
                                evalInfixExpression(node.Operator, left.val,
                                                    right.val, right.s)
              [] node.kind = "IfExpression" ->
                    evalIfExpression(node, env, entered)
              [] node.kind = "Identifier" -> evalIdentifier(node, env, entered)
              [] node.kind = "FunctionLiteral" ->
                    evalFunctionLiteral(node, env, entered)
              [] node.kind = "CallExpression" ->
                    LET function == Eval(node.Function, env, entered)
                        args == evalExpressions(node.Arguments, 1, env, <<>>,
                                                function.s)
                    IN  CASE function.stop -> function
                          [] args.stop -> R(NIL, args.s)
                          [] Len(args.val) = 1 /\ isError(args.val[1]) ->
                                R(args.val[1], args.s)
                          [] OTHER ->
                                applyFunction(function.val, args.val, args.s)
              [] OTHER -> R(NIL, entered)
    IN  [r EXCEPT
            !.s = IF r.ok
                  THEN [@ EXCEPT
                           !.log = Append(@, Event("exit", node, env,
                                                   s.depth + 1, r.val)),
                           !.depth = @ - 1]
                  ELSE @]

----------------------------------------------------------------------------
(* The statements a program is drawn from.                                 *)

Lit(n) == IntegerLiteral(n)
Id(n) == Identifier(n)
Exp(e) == ExpressionStatement(e)
Let(n, e) == LetStatement(n, e)
Ret(e) == ReturnStatement(e)
Blk(stmts) == BlockStatement(stmts)
If(c, cons) == IfExpression(c, Blk(cons), NoNode)
IfElse(c, cons, alt) == IfExpression(c, Blk(cons), Blk(alt))
Fn(params, body) == FunctionLiteral(params, Blk(body))
Call(f, args) == CallExpression(f, args)
Infix(op, l, r) == InfixExpression(op, l, r)
Prefix(op, r) == PrefixExpression(op, r)

\* expressions whose value is, in turn: absent (an empty block), a
\* ReturnValue object, an Error (u is never bound)
NilExpr == If(BooleanLit(TRUE), <<>>)
RetExpr == If(BooleanLit(TRUE), <<Ret(Lit(1))>>)
ErrExpr == Id("u")

IntLits == {Lit(n) : n \in 0..MaxInt}

\* function literals: the closure maker of the README (newAdder), a
\* recursive countdown, an endless recursion, a body with a local let and
\* a return, and a body reading the free identifier x
NewAdder == Fn(<<"x">>, <<Exp(Fn(<<"y">>, <<Exp(Infix("+", Id("x"), Id("y")))>>))>>)
CountDown ==
    Fn(<<"x">>,
       <<Exp(IfElse(Infix("<", Id("x"), Lit(1)),
                    <<Exp(Lit(0))>>,
                    <<Exp(Call(Id("f"), <<Infix("-", Id("x"), Lit(1))>>))>>))>>)
Forever == Fn(<<>>, <<Exp(Call(Id("f"), <<>>))>>)
LocalLet == Fn(<<"y">>, <<Let("x", Id("y")), Ret(Id("x")), Exp(Lit(0))>>)
ReadX == Fn(<<>>, <<Exp(Id("x"))>>)
\* fn() { f }: the function that hands back whatever f is bound to
SelfRef == Fn(<<>>, <<Exp(Id("f"))>>)
FnLits == {NewAdder, CountDown, Forever, LocalLet, ReadX, SelfRef}

\* the statements a generated program has before its last one
SetupStatements ==
    {Let("x", e) : e \in IntLits} \cup {Let("f", e) : e \in FnLits}
        \cup {Let("len", Lit(0)), Exp(Lit(0))}

Atoms ==
    IntLits \cup {BooleanLit(TRUE), BooleanLit(FALSE),
                  Id("x"), Id("f"), Id("len"), ErrExpr}

PrefixExprs ==
    {Prefix(op, e) : op \in {"!", "-"},
                     e \in {Lit(1), BooleanLit(TRUE), Id("x"), NilExpr, RetExpr}}

Operands == IntLits \cup {BooleanLit(TRUE), Id("x"), NilExpr}
\* operands of several types: an Integer, the two Booleans, whatever f is
MixedOperands == {Lit(1), BooleanLit(TRUE), BooleanLit(FALSE), Id("f")}
InfixExprs ==
    {Infix(op, l, r) : op \in {"+", "/", "=="}, l \in Operands, r \in Operands}
        \cup {Infix("+", l, r) : l \in {ErrExpr, RetExpr}, r \in {Lit(1), ErrExpr}}
        \cup {Infix(op, l, r) : op \in {"==", "!=", "+", "<"},
                                l \in MixedOperands, r \in MixedOperands}

Blocks ==
    {<<>>, <<Exp(Lit(0))>>, <<Let("x", Lit(1))>>, <<Let("x", ErrExpr)>>,
     <<Ret(Id("x")), Exp(Lit(0))>>, <<Exp(ErrExpr), Exp(Lit(0))>>}
        \cup {<<Exp(If(BooleanLit(TRUE), <<Ret(Lit(a))>>)), Ret(Lit(b))>> :
                 a \in 0..MaxInt, b \in 0..MaxInt}
IfExprs ==
    {If(c, b) : c \in {BooleanLit(TRUE), Id("x")}, b \in Blocks}
        \cup {IfElse(c, <<Exp(Lit(1))>>, b) :
                 c \in {BooleanLit(FALSE), NilExpr, ErrExpr},
                 b \in {<<>>, <<Ret(Lit(0))>>}}
        \cup {If(BooleanLit(FALSE), <<Exp(Lit(1))>>)}
        \cup {If(BooleanLit(TRUE), <<Let("f", ReadX), Let("x", Lit(1)),
                                     Exp(Call(Id("f"), <<>>))>>)}

ArgLists ==
    {<<>>, <<Lit(0)>>, <<Lit(1)>>, <<Lit(1), Lit(0)>>, <<ErrExpr, Lit(1)>>,
     <<Lit(1), ErrExpr>>, <<ErrExpr, Id("u")>>, <<NilExpr>>}
CallExprs ==
    {Call(c, a) : c \in {Id("f"), Id("x"), Id("len"), NilExpr, ErrExpr,
                         Fn(<<"x">>, <<Exp(Id("x"))>>)},
                  a \in ArgLists}
        \cup {Call(Call(c, <<a>>), <<b>>) :
                 c \in {Id("f"), NewAdder}, a \in IntLits, b \in IntLits}
        \cup {Call(Fn(<<"x">>, <<Exp(Call(Call(Id("f"), <<a>>), <<Id("x")>>))>>),
                   <<b>>) : a \in IntLits, b \in IntLits}
        \cup {Call(Fn(<<>>, <<Ret(e), Exp(Lit(0))>>), <<>>) :
                 e \in {Lit(1), RetExpr, NilExpr, ErrExpr}}
        \cup {Call(Fn(<<>>, <<Let("x", Lit(1)), Exp(Id("x"))>>), <<>>)}

LastStatements ==
    {Exp(e) : e \in Atoms \cup PrefixExprs \cup InfixExprs \cup IfExprs
                          \cup CallExprs}
        \cup {Let("x", e) : e \in {ErrExpr, RetExpr, NilExpr, Id("len")}}
        \cup {Ret(e) : e \in IntLits \cup {ErrExpr, RetExpr, NilExpr, Id("x")}}

Statements == SetupStatements \cup LastStatements

----------------------------------------------------------------------------
(* evalProgram: the statement loop over Program.Statements                 *)

\* a variant that returns the ReturnValue without unwrapping it
evalProgramSwitchWrapped(val) ==
    IF val # NIL /\ val.Type \in {RETURN_VALUE_OBJ, ERROR_OBJ}
    THEN [return |-> TRUE, obj |-> val]
    ELSE [return |-> FALSE, obj |-> val]

\* the type switch of evalProgram on the value of a statement: whether the
\* loop returns, and the object it then returns
evalProgramSwitch(val) ==
    IF val # NIL /\ val.Type = RETURN_VALUE_OBJ
    THEN [return |-> TRUE, obj |-> val.Inner]
    ELSE IF val # NIL /\ val.Type = ERROR_OBJ
         THEN [return |-> TRUE, obj |-> val]
         ELSE [return |-> FALSE, obj |-> val]

\* the run at the start of an evaluation
Run(heap, arrs, n) ==
    [envs |-> heap, arrays |-> arrs, nalloc |-> n, log |-> <<>>,
     depth |-> 0, calls |-> 0, st |-> "ok"]

NoCall == [fn |-> NIL, args |-> <<>>, out |-> NIL, done |-> FALSE]

\* no Lexer has been made
NoLexer == [input |-> <<>>, position |-> 0, readPosition |-> 0, ch |-> 0]

\* no Parser is in use
NoParser == [errors |-> <<>>, trace |-> <<>>]

Init ==
    /\ program = <<>>
    /\ lexer = NoLexer
    /\ tokens = <<>>
    /\ parser = NoParser
    /\ envs = <<NewEnvironment>>
    /\ nalloc = 0
    /\ result = NIL
    /\ status = "running"
    /\ log = <<>>
    /\ arrays = <<>>
    /\ call = NoCall

\* one iteration of the loop: result = Eval(statement, env) and the switch
evalProgramStep(statement) ==
    /\ status = "running"
    /\ Len(program) < MaxStmts
    /\ \A k \in 1..Len(program) : program[k] \in SetupStatements
    /\ LET r == Eval(statement, 1, Run(envs, arrays, nalloc))
           sw == evalProgramSwitch(r.val)
       IN  /\ program' = Append(program, statement)
           /\ envs' = r.s.envs
           /\ nalloc' = r.s.nalloc
           /\ log' = r.s.log
           /\ arrays' = r.s.arrays
           /\ UNCHANGED <<call, lexer, tokens, parser>>
           /\ IF r.s.st # "ok"
              THEN status' = r.s.st /\ result' = result
              ELSE /\ result' = sw.obj
                   /\ status' = IF sw.return THEN "returned" ELSE "running"

\* the loop is over: return result
evalProgramEnd ==
    /\ status = "running"
    /\ status' = "returned"
    /\ UNCHANGED <<program, envs, nalloc, result, log, arrays, call, lexer,
                   tokens, parser>>

Next ==
    \/ \E statement \in Statements : evalProgramStep(statement)
    \/ evalProgramEnd

Spec == Init /\ [][Next]_vars

----------------------------------------------------------------------------
(* applyFunction on its own: a callee object and an argument slice.        *)

\* the callees: every built-in, objects of the other kinds, and two
\* Function objects closed over the global environment
IdentityFn == Function(1, <<"x">>, Blk(<<Exp(Id("x"))>>), 1)
ReturnOneFn == Function(2, <<>>, Blk(<<Ret(Lit(1)), Exp(Lit(0))>>), 1)
Callees ==
    {builtins[n] : n \in BuiltinNames} \cup {Integer(n) : n \in 0..MaxInt}
        \cup {TRUE_OBJ, NULL, String("ab"), Array(1), IdentityFn, ReturnOneFn}

\* the Elements of the arrays Array(1) and Array(2)
InitArrays == << <<>>, <<Integer(1), TRUE_OBJ>> >>

ArgObjects ==
    {Integer(n) : n \in 0..MaxInt} \cup {TRUE_OBJ, String("ab"), Array(1), Array(2)}
ArgSlices ==
    {<<>>} \cup {<<a>> : a \in ArgObjects}
        \cup {<<a, b>> : a \in {Array(1), Array(2), Integer(0)}, b \in ArgObjects}

InitApply ==
    /\ program = <<>>
    /\ lexer = NoLexer
    /\ tokens = <<>>
    /\ parser = NoParser
    /\ envs = <<NewEnvironment>>
    /\ nalloc = 2
    /\ result = NIL
    /\ status = "running"
    /\ log = <<>>
    /\ arrays = InitArrays
    /\ call \in {[fn |-> f, args |-> a, out |-> NIL, done |-> FALSE] :
                    f \in Callees, a \in ArgSlices}

\* out = applyFunction(fn, args)
applyCall ==
    /\ ~call.done
    /\ LET r == applyFunction(call.fn, call.args, Run(envs, arrays, nalloc))
       IN  /\ call' = [call EXCEPT !.out = r.val, !.done = TRUE]
           /\ envs' = r.s.envs
           /\ arrays' = r.s.arrays
           /\ nalloc' = r.s.nalloc
           /\ log' = r.s.log
           /\ status' = IF r.s.st = "ok" THEN "returned" ELSE r.s.st
    /\ UNCHANGED <<program, result, lexer, tokens, parser>>

NextApply == applyCall

SpecApply == InitApply /\ [][NextApply]_vars

----------------------------------------------------------------------------
(* The operators of the evaluator on Integer operands, applied on their    *)
(* own: evalInfixExpression and evalPrefixExpression on operands at the    *)
(* ends and in the middle of the int64 range.                              *)

\* the int64 of h * 2^62 + l, written out limb by limb: the top two bits
\* are h modulo 4 (h - 1 when l is negative), the 62 bits below are l
Int64At(h, l) ==
    IF l >= 0 THEN <<l % Limb, l \div Limb, 0, (h % 4) * 2^14>>
    ELSE <<Limb - 1 - ((0 - l - 1) % Limb), Limb - 1 - ((0 - l - 1) \div Limb),
           Limb - 1, ((h - 1) % 4) * 2^14 + 2^14 - 1>>

\* math.MaxInt64 is 2 * 2^62 - 1, math.MinInt64 is -2 * 2^62
MaxInt64 == Int64At(2, -1)
MinInt64 == Int64At(-2, 0)

\* the operands as pairs h, l of the number h * 2^62 + l
IntegerOperands ==
    {[h |-> 0, l |-> l] : l \in {-7, -2, -1, 0, 1, 2, 3}}
        \cup {[h |-> 2, l |-> -1], [h |-> 2, l |-> -2], [h |-> -2, l |-> 0],
              [h |-> -2, l |-> 1], [h |-> 1, l |-> 0], [h |-> -1, l |-> 5]}

IntegerAt(x) == IntegerObject(Int64At(x.h, x.l))

IntegerOperators == {"+", "-", "*", "/"}

InitInteger ==
    /\ program = <<>>
    /\ lexer = NoLexer
    /\ tokens = <<>>
    /\ parser = NoParser
    /\ envs = <<NewEnvironment>>
    /\ nalloc = 0
    /\ result = NIL
    /\ status = "running"
    /\ log = <<>>
    /\ arrays = <<>>
    /\ call \in {[fn |-> String(op), args |-> <<IntegerAt(x), IntegerAt(y)>>,
                   out |-> NIL, done |-> FALSE] :
                     op \in IntegerOperators, x \in IntegerOperands,
                     y \in IntegerOperands}
               \cup {[fn |-> String("-"), args |-> <<IntegerAt(x)>>,
                      out |-> NIL, done |-> FALSE] : x \in IntegerOperands}

\* out = evalPrefixExpression(operator, right) for one operand,
\* out = evalInfixExpression(operator, left, right) for two
applyOperator ==
    /\ ~call.done
    /\ LET s == Run(envs, arrays, nalloc)
           r == IF Len(call.args) = 1
                THEN evalPrefixExpression(call.fn.Str, call.args[1], s)
                ELSE evalInfixExpression(call.fn.Str, call.args[1],
                                         call.args[2], s)
       IN  /\ call' = [call EXCEPT !.out = r.val, !.done = TRUE]
           /\ nalloc' = r.s.nalloc
           /\ status' = IF r.s.st = "ok" THEN "returned" ELSE r.s.st
    /\ UNCHANGED <<program, envs, result, log, arrays, lexer, tokens, parser>>

NextInteger == applyOperator

SpecInteger == InitInteger /\ [][NextInteger]_vars

----------------------------------------------------------------------------
(* The built-in functions called on their own, one after the other:        *)
(* builtins[name].Fn(args...) on the arrays allocated so far, until a call *)
(* yields an Error or panics.                                              *)

\* the arguments a call can be given when the heap holds n arrays
BuiltinArgs(n) ==
    LET firsts == {Array(ref) : ref \in 1..n} \cup {Integer(0)}
    IN  {<<>>} \cup {<<a>> : a \in firsts}
            \cup {<<a, b>> : a \in firsts, b \in {Integer(0), Array(1)}}

InitBuiltin ==
    /\ program = <<>>
    /\ lexer = NoLexer
    /\ tokens = <<>>
    /\ parser = NoParser
    /\ envs = <<NewEnvironment>>
    /\ nalloc = 0
    /\ result = NIL
    /\ status = "running"
    /\ log = <<>>
    /\ arrays = InitArrays
    /\ call = NoCall

\* out = builtins[name].Fn(args...)
callBuiltinFn(name, args) ==
    /\ status = "running"
    /\ Len(arrays) < MaxArrays
    /\ LET r == callBuiltin(name, args, Run(envs, arrays, nalloc))
       IN  /\ call' = [fn |-> builtins[name], args |-> args, out |-> r.val,
                       done |-> TRUE]
           /\ arrays' = r.s.arrays
           /\ nalloc' = r.s.nalloc
           /\ status' = IF r.s.st # "ok" THEN r.s.st
                         ELSE IF isError(r.val) THEN "returned" ELSE "running"
    /\ UNCHANGED <<program, envs, result, log, lexer, tokens, parser>>

NextBuiltin ==
    \E name \in BuiltinNames, args \in BuiltinArgs(Len(arrays)) :
        callBuiltinFn(name, args)

SpecBuiltin == InitBuiltin /\ [][NextBuiltin]_vars

----------------------------------------------------------------------------
(* The operations of object.Environment called on their own, in any        *)
(* order: NewEnclosedEnvironment, Set and Get on the environments made so  *)
(* far.                                                                    *)

EnvNames == {"x", "y"}
EnvValues == {Integer(0), Integer(1)}

\* the operation called last: its receiver, its name argument, what it
\* returned (Get's obj and ok, Set's val)
EnvCall(op, e, name, obj, ok) ==
    [fn |-> String(op), args |-> <<>>, out |-> obj, done |-> TRUE,
     env |-> e, name |-> name, ok |-> ok]

InitEnv ==
    /\ program = <<>>
    /\ lexer = NoLexer
    /\ tokens = <<>>
    /\ parser = NoParser
    /\ envs = <<NewEnvironment>>
    /\ nalloc = 0
    /\ result = NIL
    /\ status = "running"
    /\ log = <<>>
    /\ arrays = <<>>
    /\ call = NoCall

\* env := NewEnclosedEnvironment(outer)
newEnclosedEnvironment(outer) ==
    /\ Len(envs) < MaxEnvs
    /\ envs' = Append(envs, NewEnclosedEnvironment(outer))
    /\ call' = EnvCall("NewEnclosedEnvironment", Len(envs) + 1, "", NIL, TRUE)
    /\ UNCHANGED <<program, nalloc, result, status, log, arrays, lexer, tokens, parser>>

\* e.Set(name, val)
envSet(e, name, val) ==
    /\ envs' = Set(envs, e, name, val)
    /\ call' = EnvCall("Set", e, name, val, TRUE)
    /\ UNCHANGED <<program, nalloc, result, status, log, arrays, lexer, tokens, parser>>

\* obj, ok := e.Get(name)
envGet(e, name) ==
    /\ call' = EnvCall("Get", e, name, Get(envs, e, name).obj,
                       Get(envs, e, name).ok)
    /\ UNCHANGED <<program, envs, nalloc, result, status, log, arrays, lexer,
                   tokens, parser>>

NextEnv ==
    \/ \E outer \in 1..Len(envs) : newEnclosedEnvironment(outer)
    \/ \E e \in 1..Len(envs), name \in EnvNames, val \in EnvValues :
           envSet(e, name, val)
    \/ \E e \in 1..Len(envs), name \in EnvNames : envGet(e, name)

SpecEnv == InitEnv /\ [][NextEnv]_vars

----------------------------------------------------------------------------
(* monkey/lexer.  The input is a sequence of bytes, a byte is its number;  *)
(* a token's Literal is the sequence of its bytes.                         *)

\* the bytes of the character literals of lexer.go
B ==
    "=" :> 61 @@ "+" :> 43 @@ "-" :> 45 @@ "!" :> 33 @@ "/" :> 47 @@ "*" :> 42
        @@ "<" :> 60 @@ ">" :> 62 @@ ";" :> 59 @@ "," :> 44 @@ "{" :> 123
        @@ "}" :> 125 @@ "(" :> 40 @@ ")" :> 41 @@ " " :> 32 @@ "\t" :> 9
        @@ "\n" :> 10 @@ "\r" :> 13 @@ "a" :> 97 @@ "z" :> 122 @@ "A" :> 65
        @@ "Z" :> 90 @@ "_" :> 95 @@ "0" :> 48 @@ "9" :> 57

Token(type, literal) == [Type |-> type, Literal |-> literal]

\* token.LookupIdent: the kind of a keyword, IDENT for any other word
LookupIdent(ident) ==
    CASE ident = <<102, 110>> -> "FUNCTION"
      [] ident = <<108, 101, 116>> -> "LET"
      [] ident = <<116, 114, 117, 101>> -> "TRUE"
      [] ident = <<102, 97, 108, 115, 101>> -> "FALSE"
      [] ident = <<105, 102>> -> "IF"
      [] ident = <<101, 108, 115, 101>> -> "ELSE"
      [] ident = <<114, 101, 116, 117, 114, 110>> -> "RETURN"
      [] OTHER -> "IDENT"

isLetter(ch) ==
    \/ B["a"] <= ch /\ ch <= B["z"]
    \/ B["A"] <= ch /\ ch <= B["Z"]
    \/ ch = B["_"]

isDigit(ch) == B["0"] <= ch /\ ch <= B["9"]

newToken(tokenType, ch) == Token(tokenType, <<ch>>)

\* a variant that stays where it is at the end of the input
readCharAtEndStays(l) ==
    IF l.readPosition >= Len(l.input) THEN [l EXCEPT !.ch = 0]
    ELSE [l EXCEPT !.ch = l.input[l.readPosition + 1],
                   !.position = l.readPosition,
                   !.readPosition = l.readPosition + 1]

\* readChar; input[i] of the code is input[i + 1] here
readChar(l) ==
    [l EXCEPT !.ch = IF l.readPosition >= Len(l.input) THEN 0
                     ELSE l.input[l.readPosition + 1],
              !.position = l.readPosition,
              !.readPosition = l.readPosition + 1]

\* a variant that looks at the current byte
peekCharCurrent(l) == l.ch

peekChar(l) ==
    IF l.readPosition >= Len(l.input) THEN 0 ELSE l.input[l.readPosition + 1]

\* a variant that does not read the first byte
NewUnread(input) ==
    [input |-> input, position |-> 0, readPosition |-> 0, ch |-> 0]

\* New(input)
New(input) ==
    readChar([input |-> input, position |-> 0, readPosition |-> 0, ch |-> 0])

RECURSIVE skipWhitespace(_)
skipWhitespace(l) ==
    IF l.ch \in {B[" "], B["\t"], B["\n"], B["\r"]}
    THEN Then(readChar(l), skipWhitespace)
    ELSE l

\* the loop of readIdentifier: the Lexer after it
RECURSIVE readLetters(_)
readLetters(l) == IF isLetter(l.ch) THEN Then(readChar(l), readLetters) ELSE l

\* readIdentifier: the Lexer after it and input[position:l.position]
readIdentifier(l) ==
    LET after == readLetters(l)
    IN  [l |-> after, lit |-> SubSeq(l.input, l.position + 1, after.position)]

\* the loop of readNumber: the Lexer after it
RECURSIVE readDigits(_)
readDigits(l) == IF isDigit(l.ch) THEN Then(readChar(l), readDigits) ELSE l

readNumber(l) ==
    LET after == readDigits(l)
    IN  [l |-> after, lit |-> SubSeq(l.input, l.position + 1, after.position)]

\* NextToken: the Lexer after the call and the token returned
NextToken(l0) ==
    LET l == skipWhitespace(l0)
        \* tok = newToken(type, l.ch), and the readChar after the switch
        one(type) == [l |-> readChar(l), tok |-> newToken(type, l.ch)]
        \* ch := l.ch; l.readChar(); literal := string(ch) + string(l.ch)
        two(type) ==
            [l |-> readChar(readChar(l)),
             tok |-> Token(type, <<l.ch, readChar(l).ch>>)]
    IN  CASE l.ch = B["="] ->
                IF peekChar(l) = B["="] THEN two("EQ") ELSE one("ASSIGN")
          [] l.ch = B["+"] -> one("PLUS")
          [] l.ch = B["-"] -> one("MINUS")
          [] l.ch = B["!"] ->
                IF peekChar(l) = B["="] THEN two("NOT_EQ") ELSE one("BANG")
          [] l.ch = B["/"] -> one("SLASH")
          [] l.ch = B["*"] -> one("ASTERISK")
          [] l.ch = B["<"] -> one("LT")
          [] l.ch = B[">"] -> one("GT")
          [] l.ch = B[";"] -> one("SEMICOLON")
          [] l.ch = B[","] -> one("COMMA")
          [] l.ch = B["{"] -> one("LBRACE")
          [] l.ch = B["}"] -> one("RBRACE")
          [] l.ch = B["("] -> one("LPAREN")
          [] l.ch = B[")"] -> one("RPAREN")
          [] l.ch = 0 -> [l |-> readChar(l), tok |-> Token("EOF", <<>>)]
          [] OTHER ->
                IF isLetter(l.ch)
                THEN LET r == readIdentifier(l)
                     IN  [l |-> r.l, tok |-> Token(LookupIdent(r.lit), r.lit)]
                ELSE IF isDigit(l.ch)
                THEN LET r == readNumber(l)
                     IN  [l |-> r.l, tok |-> Token("INT", r.lit)]
                ELSE one("ILLEGAL")

\* the bytes of the inputs: NUL, space, the quote, =, !, a letter, a digit,
\* and @, which starts no token
InputBytes == {0, B[" "], 34, B["="], B["!"], B["a"], B["0"] + 1, 64}

Inputs == UNION {[1..n -> InputBytes] : n \in 0..MaxInputLen}

InitLexer ==
    /\ program = <<>>
    /\ envs = <<NewEnvironment>>
    /\ nalloc = 0
    /\ result = NIL
    /\ status = "running"
    /\ log = <<>>
    /\ arrays = <<>>
    /\ call = NoCall
    /\ lexer \in {New(input) : input \in Inputs}
    /\ tokens = <<>>
    /\ parser = NoParser

\* tok := l.NextToken()
nextToken ==
    /\ Len(tokens) <= Len(lexer.input) + MaxPastEnd
    /\ LET r == NextToken(lexer)
       IN  /\ lexer' = r.l
           /\ tokens' = Append(tokens, [tok |-> r.tok, from |-> lexer.position,
                                        to |-> r.l.position])
    /\ UNCHANGED <<program, envs, nalloc, result, status, log, arrays, call, parser>>

NextLexer == nextToken

SpecLexer == InitLexer /\ [][NextLexer]_vars

\* the caller goes on calling NextToken
FairSpecLexer == SpecLexer /\ WF_vars(nextToken)

----------------------------------------------------------------------------
(* monkey/parser.  A parse function takes the Parser p and hands back the  *)
(* Parser after the call and the node it returns; p.trace records the      *)
(* calls of expectPeek and the iterations of the statement loops made for  *)
(* the last statement.  The Parser holds its Lexer as the tokens the       *)
(* Lexer has yet to return.                                                *)

LOWEST == 1
EQUALS == 2
LESSGREATER == 3
SUM == 4
PRODUCT == 5
PREFIX == 6
CALL == 7

precedences ==
    [t \in {"EQ", "NOT_EQ"} |-> EQUALS]
        @@ [t \in {"LT", "GT"} |-> LESSGREATER]
        @@ [t \in {"PLUS", "MINUS"} |-> SUM]
        @@ [t \in {"SLASH", "ASTERISK"} |-> PRODUCT]
        @@ [t \in {"LPAREN"} |-> CALL]

\* the keys of prefixParseFns and infixParseFns, as New registers them
prefixParseFns ==
    {"IDENT", "INT", "BANG", "MINUS", "TRUE", "FALSE", "LPAREN", "IF",
     "FUNCTION"}
infixParseFns ==
    {"PLUS", "MINUS", "SLASH", "ASTERISK", "EQ", "NOT_EQ", "LT", "GT",
     "LPAREN"}

\* a nil pointer of a node type inside a non-nil interface value
NilPointer(type) == [kind |-> "nil", ptr |-> type]

\* a Go slice of nodes: nil, or the elements
List(items) == [isNil |-> FALSE, items |-> items]
NilList == [isNil |-> TRUE, items |-> <<>>]

\* &ast.Identifier{Token: p.curToken, Value: p.curToken.Literal}
IdentifierOf(tok) ==
    [kind |-> "Identifier", Name |-> tok.Literal, Token |-> tok]

\* what a parse function hands back
PR(p, node) == [p |-> p, node |-> node]

\* what the claims read of a Parser
Snap(p) ==
    [l |-> p.l, curToken |-> p.curToken, peekToken |-> p.peekToken,
     errors |-> p.errors, read |-> p.read]

Call_(ev, t, before, after, ok) ==
    [ev |-> ev, t |-> t, before |-> Snap(before), after |-> Snap(after),
     ok |-> ok]

\* the tokens the calls of NextToken on the Lexer l return one after the
\* other, up to the end of the input: every call after them returns EOF
RECURSIVE TokenStream(_)
TokenStream(l) ==
    LET rest(r) == <<r.tok>> \o TokenStream(r.l)
    IN  IF l.position >= Len(l.input) THEN <<>> ELSE Then(NextToken(l), rest)

\* p.l is the Lexer as the stream of the tokens it has yet to return, p.read
\* the number of calls of NextToken made on it
parserNextToken(p) ==
    [p EXCEPT !.curToken = p.peekToken,
              !.peekToken = IF p.l = <<>> THEN Token("EOF", <<>>)
                            ELSE Head(p.l),
              !.l = IF p.l = <<>> THEN <<>> ELSE Tail(p.l),
              !.read = @ + 1]

\* the zero Token
NoToken == Token("", <<>>)

NewParser(l) ==
    parserNextToken(parserNextToken(
        [l |-> l, errors |-> <<>>, curToken |-> NoToken,
         peekToken |-> NoToken, read |-> 0, trace |-> <<>>]))

\* a variant that keeps only the last message
peekErrorReplacing(p, t) ==
    [p EXCEPT !.errors = <<"expected next token to be " \o t \o ", got "
                              \o p.peekToken.Type \o " instead">>]

\* a variant that records nothing
peekErrorSilent(p, t) == p

peekError(p, t) ==
    [p EXCEPT !.errors = Append(@, "expected next token to be " \o t
                                       \o ", got " \o p.peekToken.Type
                                       \o " instead")]

\* what expectPeek hands back: the Parser and the boolean returned
Expected(p, t, after) ==
    [p |-> [after EXCEPT !.trace =
                Append(@, Call_("expectPeek", t, p, after,
                                p.peekToken.Type = t))],
     ok |-> p.peekToken.Type = t]

\* a variant that advances whatever the peek token is
expectPeekAlwaysAdvances(p, t) == Expected(p, t, parserNextToken(p))

expectPeek(p, t) ==
    Expected(p, t, IF p.peekToken.Type = t THEN parserNextToken(p)
                   ELSE peekError(p, t))

noPrefixParseFnError(p, t) ==
    [p EXCEPT !.errors =
        Append(@, "no prefix parse function for " \o t \o " found")]

peekPrecedence(p) ==
    IF p.peekToken.Type \in DOMAIN precedences
    THEN precedences[p.peekToken.Type] ELSE LOWEST

curPrecedence(p) ==
    IF p.curToken.Type \in DOMAIN precedences
    THEN precedences[p.curToken.Type] ELSE LOWEST

\* if p.peekTokenIs(token.SEMICOLON) { p.nextToken() }
skipSemicolon(p) ==
    IF p.peekToken.Type = "SEMICOLON" THEN parserNextToken(p) ELSE p

\* base^k as an int64
RECURSIVE Pow64(_, _)
Pow64(base, k) ==
    LET square(h) == Mul64(h, h)
        times(h) == Mul64(Int64(base), h)
    IN  IF k = 0 THEN Int64(1)
        ELSE IF k % 2 = 1 THEN Then(Then2(base, k - 1, Pow64), times)
        ELSE Then(Then2(base, k \div 2, Pow64), square)

\* the number the digits s write in the given base, as an int64
RECURSIVE DigitsValue(_, _)
DigitsValue(s, base) ==
    IF Len(s) = 0 THEN Int64(0)
    ELSE IF Len(s) = 1 THEN Int64(s[1] - B["0"])
    ELSE Add64(Mul64(Then2(SubSeq(s, 1, Len(s) \div 2), base, DigitsValue),
                     Pow64(base, Len(s) - Len(s) \div 2)),
               Then2(SubSeq(s, Len(s) \div 2 + 1, Len(s)), base, DigitsValue))

\* the digits s without their leading zeros
Significant(s) ==
    IF \A k \in 1..Len(s) : s[k] = B["0"] THEN <<>>
    ELSE SubSeq(s, CHOOSE k \in 1..Len(s) :
                       s[k] # B["0"] /\ \A j \in 1..(k - 1) : s[j] = B["0"],
                Len(s))

\* 2^63 - 1 in base 10
MaxInt64Digits ==
    [k \in 1..19 |->
        B["0"] + <<9, 2, 2, 3, 3, 7, 2, 0, 3, 6, 8, 5, 4, 7, 7, 5, 8, 0, 7>>[k]]

\* the number the digits s write in the given base is at most 2^63 - 1;
\* in base 8 that is 21 digits, in base 10 the 19 digits above
FitsInt64(s, base) ==
    LET fits(sig) ==
            IF base = 8 THEN Len(sig) <= 21
            ELSE \/ Len(sig) < 19
                 \/ /\ Len(sig) = 19
                    /\ ~ \E k \in 1..19 :
                            /\ sig[k] > MaxInt64Digits[k]
                            /\ \A j \in 1..(k - 1) :
                                   sig[j] = MaxInt64Digits[j]
    IN  Then(Significant(s), fits)

\* strconv.ParseInt(s, 0, 64) for a non-empty run of digits s: with base 0
\* a leading 0 makes the rest an octal number; a digit that is no digit of
\* the base is a syntax error, a number above 2^63 - 1 a range error
ParseInt(s) ==
    LET base == IF s[1] = B["0"] THEN 8 ELSE 10
    IN  IF \E k \in 1..Len(s) : s[k] - B["0"] >= base
        THEN [err |-> "syntax", value |-> Int64(0)]
        ELSE IF ~ FitsInt64(s, base)
        THEN [err |-> "range", value |-> MaxInt64]
        ELSE [err |-> "", value |-> DigitsValue(s, base)]

\* the Go string of a run of digits
Digit == <<"0", "1", "2", "3", "4", "5", "6", "7", "8", "9">>
RECURSIVE DigitString(_)
DigitString(s) ==
    IF s = <<>> THEN ""
    ELSE Digit[Head(s) - B["0"] + 1] \o Then(Tail(s), DigitString)

parseIdentifier(p) == PR(p, IdentifierOf(p.curToken))

parseIntegerLiteral(p) ==
    LET end(r) ==
            IF r.err # ""
            THEN PR([p EXCEPT !.errors =
                        Append(@, "could not parse \""
                                      \o DigitString(p.curToken.Literal)
                                      \o "\" as integer")],
                    NoNode)
            ELSE PR(p, IntegerLiteral(r.value))
    IN  Then(ParseInt(p.curToken.Literal), end)

parseBoolean(p) == PR(p, BooleanLit(p.curToken.Type = "TRUE"))

RECURSIVE parseStatement(_)
RECURSIVE parseExpression(_, _)
RECURSIVE parseExpressionLoop(_, _)
RECURSIVE parseBlockStatement(_)
RECURSIVE parseBlockStatementLoop(_)
RECURSIVE parseCallArgumentsLoop(_, _)

\* a variant that parses the operand with the lowest precedence
parsePrefixExpressionLowest(p) ==
    LET end(right) == PR(right.p, PrefixExpression(p.curToken.Literal, right.node))
    IN  Then(parseExpression(parserNextToken(p), LOWEST), end)

parsePrefixExpression(p) ==
    LET end(right) == PR(right.p, PrefixExpression(p.curToken.Literal, right.node))
    IN  Then(parseExpression(parserNextToken(p), PREFIX), end)

\* a variant that parses the right operand one step below the operator
parseInfixExpressionRight(p, left) ==
    LET end(right) ==
            PR(right.p, InfixExpression(p.curToken.Literal, left, right.node))
    IN  Then(parseExpression(parserNextToken(p), curPrecedence(p) - 1), end)

parseInfixExpression(p, left) ==
    LET end(right) ==
            PR(right.p, InfixExpression(p.curToken.Literal, left, right.node))
    IN  Then(parseExpression(parserNextToken(p), curPrecedence(p)), end)

\* in the parse functions below each step of the Go function is a local
\* operator on what the step before it handed back: e is the outcome of an
\* expectPeek, the other parameters are the nodes parsed so far
parseGroupedExpression(p) ==
    LET end(e, exp) == PR(e.p, IF e.ok THEN exp ELSE NoNode)
        afterExp(exp) == Then2(expectPeek(exp.p, "RPAREN"), exp.node, end)
    IN  Then(parseExpression(parserNextToken(p), LOWEST), afterExp)

parseIfExpression(p) ==
    LET end(alt, cond, cons) == PR(alt.p, IfExpression(cond, cons, alt.node))
        afterElse(e, cond, cons) ==
            IF e.ok THEN Then3(parseBlockStatement(e.p), cond, cons, end)
            ELSE PR(e.p, NoNode)
        afterConsequence(cons, cond) ==
            IF cons.p.peekToken.Type = "ELSE"
            THEN Then3(expectPeek(parserNextToken(cons.p), "LBRACE"),
                       cond, cons.node, afterElse)
            ELSE PR(cons.p, IfExpression(cond, cons.node, NoNode))
        afterLBrace(e, cond) ==
            IF e.ok THEN Then2(parseBlockStatement(e.p), cond, afterConsequence)
            ELSE PR(e.p, NoNode)
        afterRParen(e, cond) ==
            IF e.ok THEN Then2(expectPeek(e.p, "LBRACE"), cond, afterLBrace)
            ELSE PR(e.p, NoNode)
        afterCondition(cond) ==
            Then2(expectPeek(cond.p, "RPAREN"), cond.node, afterRParen)
        afterLParen(e) ==
            IF e.ok
            THEN Then(parseExpression(parserNextToken(e.p), LOWEST),
                      afterCondition)
            ELSE PR(e.p, NoNode)
    IN  Then(expectPeek(p, "LPAREN"), afterLParen)

\* the loop of parseFunctionParameters
RECURSIVE parseFunctionParametersLoop(_, _)
parseFunctionParametersLoop(p, identifiers) ==
    LET add(q) ==
            parseFunctionParametersLoop(
                q, Append(identifiers, IdentifierOf(q.curToken)))
    IN  IF p.peekToken.Type = "COMMA"
        THEN Then(parserNextToken(parserNextToken(p)), add)
        ELSE PR(p, identifiers)

parseFunctionParameters(p) ==
    LET end(e, identifiers) ==
            PR(e.p, IF e.ok THEN List(identifiers) ELSE NilList)
        afterLoop(r) == Then2(expectPeek(r.p, "RPAREN"), r.node, end)
        first(q) ==
            Then(parseFunctionParametersLoop(q, <<IdentifierOf(q.curToken)>>),
                 afterLoop)
    IN  IF p.peekToken.Type = "RPAREN"
        THEN PR(parserNextToken(p), List(<<>>))
        ELSE Then(parserNextToken(p), first)

parseFunctionLiteral(p) ==
    LET end(body, params) == PR(body.p, FunctionLiteral(params, body.node))
        afterLBrace(e, params) ==
            IF e.ok THEN Then2(parseBlockStatement(e.p), params, end)
            ELSE PR(e.p, NoNode)
        afterParameters(params) ==
            Then2(expectPeek(params.p, "LBRACE"), params.node, afterLBrace)
        afterLParen(e) ==
            IF e.ok THEN Then(parseFunctionParameters(e.p), afterParameters)
            ELSE PR(e.p, NoNode)
    IN  Then(expectPeek(p, "LPAREN"), afterLParen)

\* the loop of parseCallArguments
parseCallArgumentsLoop(p, args) ==
    LET add(arg) == parseCallArgumentsLoop(arg.p, Append(args, arg.node))
    IN  IF p.peekToken.Type = "COMMA"
        THEN Then(parseExpression(parserNextToken(parserNextToken(p)), LOWEST),
                  add)
        ELSE PR(p, args)

parseCallArguments(p) ==
    LET end(e, args) == PR(e.p, IF e.ok THEN List(args) ELSE NilList)
        afterLoop(r) == Then2(expectPeek(r.p, "RPAREN"), r.node, end)
        first(arg) ==
            Then(parseCallArgumentsLoop(arg.p, <<arg.node>>), afterLoop)
    IN  IF p.peekToken.Type = "RPAREN"
        THEN PR(parserNextToken(p), List(<<>>))
        ELSE Then(parseExpression(parserNextToken(p), LOWEST), first)

parseCallExpression(p, function) ==
    LET end(args) == PR(args.p, CallExpression(function, args.node))
    IN  Then(parseCallArguments(p), end)

\* prefix := p.prefixParseFns[p.curToken.Type]; prefix()
prefix(p) ==
    CASE p.curToken.Type = "IDENT" -> parseIdentifier(p)
      [] p.curToken.Type = "INT" -> parseIntegerLiteral(p)
      [] p.curToken.Type \in {"BANG", "MINUS"} -> parsePrefixExpression(p)
      [] p.curToken.Type \in {"TRUE", "FALSE"} -> parseBoolean(p)
      [] p.curToken.Type = "LPAREN" -> parseGroupedExpression(p)
      [] p.curToken.Type = "IF" -> parseIfExpression(p)
      [] p.curToken.Type = "FUNCTION" -> parseFunctionLiteral(p)

\* infix := p.infixParseFns[p.peekToken.Type]; p.nextToken(); infix(leftExp)
infix(p, leftExp) ==
    IF p.curToken.Type = "LPAREN" THEN parseCallExpression(p, leftExp)
    ELSE parseInfixExpression(p, leftExp)

\* the for loop of parseExpression: left.node is leftExp
parseExpressionLoop(left, precedence) ==
    LET again(next) == parseExpressionLoop(next, precedence)
        step(q) == Then(infix(q, left.node), again)
    IN  IF /\ left.p.peekToken.Type # "SEMICOLON"
           /\ precedence < peekPrecedence(left.p)
           /\ left.p.peekToken.Type \in infixParseFns
        THEN Then(parserNextToken(left.p), step)
        ELSE left

parseExpression(p, precedence) ==
    LET loop(left) == parseExpressionLoop(left, precedence)
        start(q) ==
            IF q.curToken.Type \notin prefixParseFns
            THEN PR(noPrefixParseFnError(q, q.curToken.Type), NoNode)
            ELSE Then(prefix(q), loop)
    IN  Then(p, start)

\* a nil *ast.LetStatement becomes a non-nil ast.Statement in parseStatement
parseLetStatement(p) ==
    LET end(value, name) ==
            PR(skipSemicolon(value.p), LetStatement(name, value.node))
        afterAssign(e, name) ==
            IF e.ok
            THEN Then2(parseExpression(parserNextToken(e.p), LOWEST), name, end)
            ELSE PR(e.p, NilPointer("*ast.LetStatement"))
        afterIdent(e) ==
            IF e.ok
            THEN Then2(expectPeek(e.p, "ASSIGN"), IdentifierOf(e.p.curToken),
                       afterAssign)
            ELSE PR(e.p, NilPointer("*ast.LetStatement"))
    IN  Then(expectPeek(p, "IDENT"), afterIdent)

parseReturnStatement(p) ==
    LET end(value) == PR(skipSemicolon(value.p), ReturnStatement(value.node))
    IN  Then(parseExpression(parserNextToken(p), LOWEST), end)

parseExpressionStatement(p) ==
    LET end(e) == PR(skipSemicolon(e.p), ExpressionStatement(e.node))
    IN  Then(parseExpression(p, LOWEST), end)

parseStatement(p) ==
    CASE p.curToken.Type = "LET" -> parseLetStatement(p)
      [] p.curToken.Type = "RETURN" -> parseReturnStatement(p)
      [] OTHER -> parseExpressionStatement(p)

\* one iteration of a statement loop: parseStatement, the append when the
\* statement is not nil, and nextToken
iteration(loop, p, statements) ==
    LET end(after, stmt) ==
            PR([after EXCEPT !.trace =
                    Append(@, Call_("iteration", loop, p, after, TRUE))],
               IF stmt # NoNode THEN Append(statements, stmt) ELSE statements)
        advance(r) == Then2(parserNextToken(r.p), r.node, end)
        start(q) == Then(parseStatement(q), advance)
    IN  Then(p, start)

\* the for loop of parseBlockStatement: r.node is block.Statements
parseBlockStatementLoop(r) ==
    LET again(next) == parseBlockStatementLoop(next)
    IN  IF r.p.curToken.Type # "RBRACE" /\ r.p.curToken.Type # "EOF"
        THEN Then(iteration("parseBlockStatement", r.p, r.node), again)
        ELSE PR(r.p, BlockStatement(r.node))

parseBlockStatement(p) ==
    LET start(q) == parseBlockStatementLoop(PR(q, <<>>))
    IN  Then(parserNextToken(p), start)

----------------------------------------------------------------------------
(* l := lexer.New(input); p := parser.New(l); program := p.ParseProgram()   *)
(* on the source texts of a few families: the statement loop is the state  *)
(* machine, program the Program.Statements so far.                         *)

\* the bytes of the words a source text is made of
Word ==
    [c \in {"=", "+", "-", "!", "/", "*", "<", ">", ";", ",", "{", "}", "(",
            ")"} |-> <<B[c]>>]
        @@ "==" :> <<61, 61>> @@ "!=" :> <<33, 61>>
        @@ "a" :> <<97>> @@ "b" :> <<98>> @@ "c" :> <<99>> @@ "1" :> <<49>>
        @@ "let" :> <<108, 101, 116>> @@ "fn" :> <<102, 110>>
        @@ "if" :> <<105, 102>> @@ "else" :> <<101, 108, 115, 101>>
        @@ "return" :> <<114, 101, 116, 117, 114, 110>>

\* the words of ws, a space between two of them
RECURSIVE Text(_)
Text(ws) ==
    IF ws = <<>> THEN <<>>
    ELSE IF Len(ws) = 1 THEN Word[ws[1]]
    ELSE Word[ws[1]] \o <<B[" "]>> \o Text(Tail(ws))

BinaryOperators == {"==", "!=", "<", ">", "+", "-", "*", "/"}

\* x op1 y op2 z
Ternaries ==
    {Text(<<"a", op1, "b", op2, "c">>) : op1, op2 \in BinaryOperators}

\* a unary operator in front of an operand that something follows
Unaries ==
    {Text(<<u, "a", op, "b">>) : u \in {"-", "!"}, op \in BinaryOperators}
        \cup {Text(<<"!", "-", "a">>), Text(<<"-", "a", "(", "b", ")">>),
              Text(<<"!", "a", "(", "b", ")">>)}

\* runs of digits: the short ones over 0, 1, 7, 8, and the ends of the
\* int64 and uint64 ranges in base 10 and in base 8
Digits(str) == [k \in 1..Len(str) |-> B["0"] + str[k]]
IntegerTexts ==
    UNION {[1..n -> {B["0"], B["0"] + 1, B["0"] + 7, B["0"] + 8}] :
              n \in 1..MaxDigits}
        \cup {Digits(<<9,2,2,3,3,7,2,0,3,6,8,5,4,7,7,5,8,0,7>>),
              Digits(<<9,2,2,3,3,7,2,0,3,6,8,5,4,7,7,5,8,0,8>>),
              Digits(<<1,8,4,4,6,7,4,4,0,7,3,7,0,9,5,5,1,6,1,6>>),
              Digits(<<0,7,7,7,7,7,7,7,7,7,7,7,7,7,7,7,7,7,7,7,7,7>>),
              Digits(<<0,1,0,0,0,0,0,0,0,0,0,0,0,0,0,0,0,0,0,0,0,0,0>>)}

\* fn ( ... ) { } around short runs of identifiers, integers and commas
ParameterLists ==
    UNION {[1..n -> {"a", "1", ","}] : n \in 0..MaxParams}
FunctionTexts ==
    {Text(<<"fn", "(">> \o ps \o <<")", "{", "}">>) : ps \in ParameterLists}

\* a statement whose expression misses a token, and what follows it
BrokenExpressions ==
    {<<"(", "a">>, <<"if", "a">>, <<"if", "(", "a", "{", "b", "}">>,
     <<"if", "(", "a", ")", "b">>, <<"a", "(", "b">>, <<"fn", "a">>,
     <<"if", "(", "a", ")", "{", "(", "b", "}">>}
BrokenStatements ==
    {Text(s \o e \o f) :
        s \in {<<>>, <<"let", "a", "=">>, <<"return">>},
        e \in BrokenExpressions,
        f \in {<<>>, <<";", "c">>}}

\* any short run of words
StreamWords == {"let", "a", "=", "1", "(", ")", "if", "{", "}", ";", ","}
Streams == {Text(ws) : ws \in UNION {[1..n -> StreamWords] : n \in 0..MaxTokens}}

Sources ==
    Ternaries \cup Unaries \cup IntegerTexts \cup FunctionTexts
        \cup BrokenStatements \cup Streams

InitParser ==
    /\ program = <<>>
    /\ envs = <<NewEnvironment>>
    /\ nalloc = 0
    /\ result = NIL
    /\ status = "running"
    /\ log = <<>>
    /\ arrays = <<>>
    /\ call = NoCall
    /\ lexer \in {New(input) : input \in Sources}
    /\ tokens = <<>>
    /\ parser = NoParser

\* p := parser.New(l)
newParser ==
    /\ parser = NoParser
    /\ parser' = Then(TokenStream(lexer), NewParser)
    /\ UNCHANGED <<program, envs, nalloc, result, status, log, arrays, call,
                   lexer, tokens>>

\* one iteration of the loop of ParseProgram
parseProgramStep ==
    /\ status = "running"
    /\ parser # NoParser
    /\ parser.curToken.Type # "EOF"
    /\ \E r \in {iteration("ParseProgram", [parser EXCEPT !.trace = <<>>],
                           program)} :
           parser' = r.p /\ program' = r.node
    /\ UNCHANGED <<envs, nalloc, result, status, log, arrays, call, lexer,
                   tokens>>

\* the loop is over: return program
parseProgramEnd ==
    /\ status = "running"
    /\ parser # NoParser
    /\ parser.curToken.Type = "EOF"
    /\ status' = "returned"
    /\ UNCHANGED <<program, envs, nalloc, result, log, arrays, call, lexer,
                   tokens, parser>>

NextParser == newParser \/ parseProgramStep \/ parseProgramEnd

SpecParser == InitParser /\ [][NextParser]_vars

\* the statement loop goes on until it ends
FairSpecParser == SpecParser /\ WF_vars(NextParser)

----------------------------------------------------------------------------
(* Reading the trace of the last statement.                                *)

Last(seq) == seq[Len(seq)]

\* the elements of a set of numbers, in increasing order
Sorted(S) ==
    [n \in 1..Cardinality(S) |->
        CHOOSE x \in S : Cardinality({y \in S : y < x}) = n - 1]

Enters(kinds) ==
    {i \in 1..Len(log) : log[i].ev = "enter" /\ log[i].node.kind \in kinds}

\* the index of the "exit" event of the Eval call entered at i, 0 when the
\* run was aborted inside the call
ExitOf(i) ==
    LET js == {j \in (i + 1)..Len(log) :
                  log[j].ev = "exit" /\ log[j].depth = log[i].depth}
    IN  IF js = {} THEN 0 ELSE CHOOSE j \in js : \A k \in js : j <= k

\* the Eval calls made directly by the call entered at i, in order
Children(i) ==
    LET end == IF ExitOf(i) = 0 THEN Len(log) ELSE ExitOf(i)
    IN  Sorted({k \in (i + 1)..end :
                   log[k].ev = "enter" /\ log[k].depth = log[i].depth + 1})

\* the object returned by the call entered at i (NIL when aborted)
ValueOf(i) == IF ExitOf(i) = 0 THEN NIL ELSE log[ExitOf(i)].val

Returned(i) == ExitOf(i) # 0

\* the sub-expressions a composite node evaluates unconditionally, in
\* source order
SubNodes(node) ==
    CASE node.kind = "PrefixExpression" -> <<node.Right>>
      [] node.kind = "InfixExpression" -> <<node.Left, node.Right>>
      [] node.kind = "IfExpression" -> <<node.Condition>>
      [] node.kind = "LetStatement" -> <<node.LetValue>>
      [] node.kind = "ReturnStatement" -> <<node.ReturnValue>>
      [] node.kind = "ExpressionStatement" -> <<node.Expression>>
      [] node.kind = "CallExpression" -> <<node.Function>> \o node.Arguments
      [] OTHER -> <<>>

CompositeKinds ==
    {"PrefixExpression", "InfixExpression", "IfExpression", "LetStatement",
     "ReturnStatement", "CallExpression"}

\* every sub-expression of the call entered at i was evaluated and
\* returned an object that is no Error
AllSubNodesOk(i) ==
    LET subs == SubNodes(log[i].node)
        ch == Children(i)
    IN  /\ Len(ch) >= Len(subs)
        /\ \A k \in 1..Len(subs) :
              Returned(ch[k]) /\ ~isError(ValueOf(ch[k]))

IsReturnValue(obj) == obj # NIL /\ obj.Type = RETURN_VALUE_OBJ

----------------------------------------------------------------------------
(* Claims.                                                                 *)

AdderUnderGlobalX(a, b, c) ==
    <<Let("x", Lit(b)), Exp(Call(Call(NewAdder, <<Lit(a)>>), <<Lit(c)>>))>>

AdderUnderCallerX(a, b) ==
    <<Let("f", NewAdder),
      Exp(Call(Fn(<<"x">>, <<Exp(Call(Call(Id("f"), <<Lit(a)>>), <<Id("x")>>))>>),
               <<Lit(b)>>))>>

\* C1: every application of a Function evaluates the body in a new frame
\* whose outer environment is Function.Env, at every call depth, and the
\* function returned by newAdder(a) adds a, whatever the caller's x is
C1_LexicalScoping ==
    /\ \A k \in 1..Len(log) :
          log[k].ev = "apply" =>
             /\ envs[log[k].env].outer = log[k].val.Env
             /\ k < Len(log)
             /\ log[k + 1].ev = "enter"
             /\ log[k + 1].node = log[k].val.Body
             /\ log[k + 1].env = log[k].env
    /\ \A a \in 0..MaxInt, b \in 0..MaxInt, c \in 0..MaxInt :
          /\ program = AdderUnderGlobalX(a, b, c) => result = Integer(a + c)
          /\ program = AdderUnderCallerX(a, b) => result = Integer(a + b)

\* the adder made for x = 0 was called while the global x is 1, in a body
\* entered at call depth 2
C1_Witness ==
    /\ program = AdderUnderGlobalX(0, 1, 1)
    /\ result = Integer(1)
    /\ \E k \in 1..Len(log) : log[k].ev = "apply" /\ log[k].val.Env # 1

C2_Result ==
    (program # <<>> /\ status \in {"running", "returned"}) =>
        /\ log # <<>>
        /\ Last(log).ev = "exit"
        /\ Last(log).depth = 1
        /\ Last(log).node = Last(program)
        /\ LET val == Last(log).val
           IN  CASE IsReturnValue(val) ->
                       status = "returned" /\ result = val.Inner
                 [] isError(val) -> status = "returned" /\ result = val
                 [] OTHER -> result = val

C2_Step ==
    /\ status = "running"
    /\ \/ program' = program /\ envs' = envs /\ arrays' = arrays
       \/ \E statement \in Statements : program' = Append(program, statement)

\* C2: evalProgram evaluates the statements in order; the value of the
\* last statement evaluated is the result, unwrapped when it is a
\* ReturnValue; after a ReturnValue or an Error no statement is evaluated
\* and no binding is written
C2_EvalProgram == []C2_Result /\ [][C2_Step]_vars

\* a program returned the unwrapped object of a return statement that
\* follows another statement
C2_Witness ==
    /\ Len(program) = 2
    /\ Last(program) = Ret(Lit(1))
    /\ status = "returned"
    /\ result = Integer(1)

NestedReturn(a, b) ==
    Exp(If(BooleanLit(TRUE),
           <<Exp(If(BooleanLit(TRUE), <<Ret(Lit(a))>>)), Ret(Lit(b))>>))

\* C3: evalBlockStatement evaluates the statements in order, stops at the
\* first one whose value is a ReturnValue or an Error and returns that very
\* object, still wrapped; otherwise it returns the value of the last
\* statement; so the return of an inner block ends the outer block
C3_BlockStopsWrapped ==
    /\ \A i \in Enters({"BlockStatement"}) :
          LET stmts == log[i].node.Statements
              ch == Children(i)
              stops == {k \in 1..Len(ch) :
                           IsReturnValue(ValueOf(ch[k])) \/ isError(ValueOf(ch[k]))}
          IN  /\ Len(ch) <= Len(stmts)
              /\ \A k \in 1..Len(ch) : log[ch[k]].node = stmts[k]
              /\ \A k \in stops :
                    /\ k = Len(ch)
                    /\ ExitOf(i) = ExitOf(ch[k]) + 1
                    /\ ValueOf(i) = ValueOf(ch[k])
              /\ (Returned(i) /\ stops = {}) =>
                    /\ Len(ch) = Len(stmts)
                    /\ ValueOf(i) = IF Len(ch) = 0 THEN NIL
                                    ELSE ValueOf(ch[Len(ch)])
    /\ \A a \in 0..MaxInt, b \in 0..MaxInt :
          (program # <<>> /\ Last(program) = NestedReturn(a, b)) =>
              result = Integer(a)

\* the return of the inner block ended the outer block as well
C3_Witness ==
    /\ program # <<>>
    /\ Last(program) = NestedReturn(1, 0)
    /\ result = Integer(1)
    /\ \E i \in Enters({"BlockStatement"}) :
          Len(log[i].node.Statements) = 2 /\ Len(Children(i)) = 1
              /\ IsReturnValue(ValueOf(i))

\* C4: the value of a call expression is never a ReturnValue object
C4_CallValueUnwrapped ==
    \A i \in Enters({"CallExpression"}) : ~IsReturnValue(ValueOf(i))

\* C5: Integer / Integer with a right operand of 0 does not abort the
\* evaluator: Eval returns, and what it returns is an Error
C5_DivisionByZeroIsError ==
    \A i \in Enters({"InfixExpression"}) :
        (/\ log[i].node.Operator = "/"
         /\ AllSubNodesOk(i)
         /\ ValueOf(Children(i)[1]).Type = INTEGER_OBJ
         /\ ValueOf(Children(i)[2]) = Integer(0))
            => Returned(i) /\ isError(ValueOf(i))

\* C6: a Function applied to fewer or more arguments than it has
\* parameters does not abort the evaluator
C6_ArityMismatchNoPanic ==
    \A i \in Enters({"CallExpression"}) :
        (/\ AllSubNodesOk(i)
         /\ ValueOf(Children(i)[1]) # NIL
         /\ ValueOf(Children(i)[1]).Type = FUNCTION_OBJ
         /\ Len(ValueOf(Children(i)[1]).Parameters)
               # Len(log[i].node.Arguments))
            => Returned(i) \/ status # "panic"

\* C7: a program yields an object, absent only after a last statement that
\* is a let, and an absent operand of a prefix or infix operator does not
\* abort the evaluator
C7_OneResultNoCrash ==
    /\ (status = "returned" /\ program # <<>>
            /\ Last(program).kind # "LetStatement") => result # NIL
    /\ \A i \in Enters({"PrefixExpression", "InfixExpression"}) :
          (/\ Len(Children(i)) = Len(SubNodes(log[i].node))
           /\ \A k \in 1..Len(Children(i)) : Returned(Children(i)[k])
           /\ \E k \in 1..Len(Children(i)) : ValueOf(Children(i)[k]) = NIL)
              => Returned(i)

\* no env.Set of the statement binds name
NeverSet(name) ==
    \A k \in 1..Len(log) : log[k].ev = "set" => log[k].node.Name # name

\* C8: an Identifier evaluates to its binding in the environment chain, on
\* a miss to the entry of the built-ins table, and to the Error
\* "identifier not found" only when both miss
C8_IdentifierLookup ==
    \A i \in Enters({"Identifier"}) :
        LET name == log[i].node.Name
            got == Get(envs, log[i].env, name)
        IN  (Returned(i) /\ NeverSet(name)) =>
               CASE got.ok -> ValueOf(i) = got.obj
                 [] name \in BuiltinNames -> ValueOf(i) = builtins[name]
                 [] OTHER -> /\ isError(ValueOf(i))
                             /\ ValueOf(i).Message = "identifier not found: " \o name

\* C10: a composite node evaluates its sub-expressions in source order in
\* its own environment; when one of them returns an Error, the node
\* evaluates nothing more, writes no binding and returns that Error object
C10_ErrorPropagation ==
    \A i \in Enters(CompositeKinds \cup {"ExpressionStatement"}) :
        LET subs == SubNodes(log[i].node)
            ch == Children(i)
        IN  /\ \A k \in 1..Len(ch) :
                  k <= Len(subs) =>
                      log[ch[k]].node = subs[k] /\ log[ch[k]].env = log[i].env
            /\ \A k \in 1..Len(ch) :
                  (k <= Len(subs) /\ isError(ValueOf(ch[k]))) =>
                      /\ k = Len(ch)
                      /\ ExitOf(i) = ExitOf(ch[k]) + 1
                      /\ ValueOf(i) = ValueOf(ch[k])

\* the first of two arguments returned an Error: the second one was not
\* evaluated, the callee was not applied, and the Error is the result
C10_Witness ==
    /\ program # <<>>
    /\ Last(program) = Exp(Call(Id("f"), <<ErrExpr, Lit(1)>>))
    /\ \E i \in Enters({"CallExpression"}) :
          /\ Len(Children(i)) = 2
          /\ ValueOf(Children(i)[1]).Type = FUNCTION_OBJ
          /\ isError(ValueOf(i))
    /\ isError(result)
    /\ result.Message = "identifier not found: u"

\* C9: applyFunction dispatches on the kind of the callee: a Function is
\* applied in a fresh frame, a Builtin is invoked with the argument slice
\* and its result is the value of the call, and every other kind yields
\* the Error "not a function: <type>"
C9_CalleeDispatch ==
    call.done =>
        CASE call.fn.Type = FUNCTION_OBJ ->
                (status = "returned") =>
                    /\ Len(envs) = 2
                    /\ envs[2].outer = call.fn.Env
                    /\ ~isError(call.out)
          [] call.fn.Type = BUILTIN_OBJ ->
                /\ status = "returned"
                /\ call.out = callBuiltin(call.fn.Name, call.args,
                                          Run(<<NewEnvironment>>, InitArrays, 2)).val
                /\ ~(isError(call.out)
                        /\ call.out.Message = "not a function: BUILTIN")
          [] OTHER ->
                /\ status = "returned"
                /\ isError(call.out)
                /\ call.out.Message = "not a function: " \o call.fn.Type

\* the message of the Error an infix operator other than == and != yields
\* for operands l and r that are not both Integers
InfixErrorMessage(op, l, r) ==
    (IF l.Type # r.Type THEN "type mismatch: " ELSE "unknown operator: ")
        \o l.Type \o " " \o op \o " " \o r.Type

\* C11: for operands that are not both Integers, == is TRUE exactly when
\* the operands are the same object and != is its negation, whatever the
\* type tags; every other operator yields "type mismatch" when the tags
\* differ and "unknown operator" when they are equal
C11_InfixTypeRules ==
    /\ \A i \in Enters({"InfixExpression"}) :
          LET op == log[i].node.Operator
              l == ValueOf(Children(i)[1])
              r == ValueOf(Children(i)[2])
          IN  (/\ AllSubNodesOk(i)
               /\ l # NIL /\ r # NIL
               /\ ~(l.Type = INTEGER_OBJ /\ r.Type = INTEGER_OBJ))
                  => /\ Returned(i)
                     /\ CASE op = "==" ->
                                ValueOf(i) = (IF l = r THEN TRUE_OBJ ELSE FALSE_OBJ)
                          [] op = "!=" ->
                                ValueOf(i) = (IF l = r THEN FALSE_OBJ ELSE TRUE_OBJ)
                          [] OTHER ->
                                /\ isError(ValueOf(i))
                                /\ ValueOf(i).Message = InfixErrorMessage(op, l, r)
    /\ (program # <<>> /\ status = "returned") =>
          /\ Last(program) = Exp(Infix("==", BooleanLit(TRUE), BooleanLit(TRUE)))
                => result = TRUE_OBJ
          /\ Last(program) = Exp(Infix("==", Lit(1), BooleanLit(TRUE)))
                => result = FALSE_OBJ
          /\ Last(program) = Exp(Infix("+", Lit(1), BooleanLit(TRUE)))
                => result.Message = "type mismatch: INTEGER + BOOLEAN"
          /\ Last(program) = Exp(Infix("+", BooleanLit(TRUE), BooleanLit(FALSE)))
                => result.Message = "unknown operator: BOOLEAN + BOOLEAN"

\* 1 == true was evaluated to FALSE, with no Error
C11_Witness ==
    /\ program # <<>>
    /\ Last(program) = Exp(Infix("==", Lit(1), BooleanLit(TRUE)))
    /\ status = "returned"
    /\ result = FALSE_OBJ

\* the quotient of two small numbers truncated toward zero
TruncatedQuotient(a, b) ==
    LET q == (IF a < 0 THEN 0 - a ELSE a) \div (IF b < 0 THEN 0 - b ELSE b)
    IN  IF (a < 0) = (b < 0) THEN q ELSE 0 - q

Abs64(a) == IF IsNeg64(a) THEN Neg64(a) ELSE a

\* C12: +, -, * and / (divisor not zero) on two Integers and unary - on an
\* Integer always yield an Integer object, never an Error; the value is the
\* exact result modulo 2^64 in two's complement (for h1 * 2^62 + l1 and
\* h2 * 2^62 + l2 the sum is (h1 + h2) * 2^62 + (l1 + l2), the product is
\* (h1 * l2 + h2 * l1) * 2^62 + l1 * l2, modulo 2^64), so that max + 1 is
\* min and -min is min; the quotient is truncated toward zero: the
\* remainder left - out * right is smaller in magnitude than the divisor
\* and is zero or has the sign of the dividend.
C12_Int64Arithmetic ==
    call.done /\ call.fn.Type = STRING_OBJ =>
        \A x \in IntegerOperands, y \in IntegerOperands :
            LET op == call.fn.Str
                unary == call.args = <<IntegerAt(x)>>
                binary == call.args = <<IntegerAt(x), IntegerAt(y)>>
                zero == y.h = 0 /\ y.l = 0
                out == call.out.Value
                rem == Sub64(Int64At(x.h, x.l), Mul64(out, Int64At(y.h, y.l)))
            IN  /\ unary \/ (binary /\ ~(op = "/" /\ zero)) =>
                    /\ status = "returned"
                    /\ call.out.Type = INTEGER_OBJ
                    /\ Len(out) = 4
                    /\ \A k \in 1..4 : out[k] \in 0..(Limb - 1)
                /\ unary => out = Int64At(0 - x.h, 0 - x.l)
                /\ binary /\ op = "+" => out = Int64At(x.h + y.h, x.l + y.l)
                /\ binary /\ op = "-" => out = Int64At(x.h - y.h, x.l - y.l)
                /\ binary /\ op = "*" =>
                       out = Int64At(x.h * y.l + y.h * x.l, x.l * y.l)
                /\ binary /\ op = "/" /\ ~zero =>
                    /\ x.h = 0 /\ y.h = 0 =>
                           out = Int64(TruncatedQuotient(x.l, y.l))
                    /\ IntegerAt(x).Value = MinInt64 /\ y.h = 0 /\ y.l = -1 =>
                           out = MinInt64
                    /\ ~(IntegerAt(x).Value = MinInt64 /\ y.h = 0 /\ y.l = -1) =>
                           /\ LessU64(Abs64(rem), Abs64(Int64At(y.h, y.l)))
                           /\ rem = Int64(0)
                                \/ IsNeg64(rem) = IsNeg64(Int64At(x.h, x.l))
                           /\ ~LessU64(Abs64(Int64At(x.h, x.l)), Abs64(out))
                /\ binary /\ op = "+" /\ IntegerAt(x).Value = MaxInt64
                       /\ y.h = 0 /\ y.l = 1 => out = MinInt64
                /\ unary /\ IntegerAt(x).Value = MinInt64 => out = MinInt64

\* -7 / 2 has been evaluated to -3, and max + 1 to min
C12_Witness ==
    /\ call.done
    /\ \/ /\ call.fn = String("/")
          /\ call.args = <<Integer(-7), Integer(2)>>
          /\ call.out = Integer(-3)
       \/ /\ call.fn = String("+")
          /\ call.args = <<IntegerObject(MaxInt64), Integer(1)>>
          /\ call.out = IntegerObject(MinInt64)

\* the last call was name applied to an Array first argument, arity right
CalledOnArray(name, arity) ==
    /\ call.done
    /\ call.fn = builtins[name]
    /\ Len(call.args) = arity
    /\ call.args[1].Type = ARRAY_OBJ

\* what push and rest hand back, read off the heap after the call
C13_PushRestResult ==
    /\ CalledOnArray("push", 2) =>
           /\ call.out.Type = ARRAY_OBJ
           /\ call.out.ref # call.args[1].ref
           /\ arrays[call.out.ref]
                  = Append(arrays[call.args[1].ref], call.args[2])
    /\ CalledOnArray("rest", 1) =>
           IF arrays[call.args[1].ref] = <<>> THEN call.out = NULL
           ELSE /\ call.out.Type = ARRAY_OBJ
                /\ call.out.ref # call.args[1].ref
                /\ arrays[call.out.ref] = Tail(arrays[call.args[1].ref])

\* a call of a built-in leaves every array of the heap as it was, and an
\* Array handed back by push or rest is none of them
C13_ArraysKept ==
    /\ Len(arrays') >= Len(arrays)
    /\ \A ref \in 1..Len(arrays) : arrays'[ref] = arrays[ref]
    /\ call'.fn \in {builtins["push"], builtins["rest"]}
           /\ call'.out.Type = ARRAY_OBJ => call'.out.ref = Len(arrays) + 1

\* C13: push and rest never mutate their array argument (no array that
\* exists before a call is changed by it); push(arr, v) returns a distinct
\* Array holding arr's elements followed by v, rest(arr) a distinct Array
\* holding arr's elements from index 1 on, NULL when arr is empty.
C13_PushRestDoNotMutate == []C13_PushRestResult /\ [][C13_ArraysKept]_vars

\* push has been applied to the array that an earlier push returned, and
\* that array still holds what the earlier push gave it
C13_Witness ==
    /\ CalledOnArray("push", 2)
    /\ call.args[1].ref > Len(InitArrays)
    /\ call.out.ref > call.args[1].ref
    /\ Len(arrays[call.args[1].ref]) = 3
    /\ Len(arrays[call.out.ref]) = 4

\* the frames from e outward: e, e.outer, e.outer.outer, ...
RECURSIVE OuterChain(_, _)
OuterChain(heap, e) ==
    IF e = 0 THEN <<>> ELSE <<e>> \o OuterChain(heap, heap[e].outer)

\* what the last Get returned is the binding of the first frame of the
\* chain that binds the name; it missed exactly when no frame binds it
C14_GetInnermost ==
    call.done /\ call.fn = String("Get") =>
        LET chain == OuterChain(envs, call.env)
            binders == {i \in 1..Len(chain) :
                           call.name \in DOMAIN envs[chain[i]].store}
        IN  IF binders = {} THEN ~call.ok /\ call.out = NIL
            ELSE LET first == CHOOSE i \in binders : \A j \in binders : i <= j
                 IN  /\ call.ok
                     /\ call.out = envs[chain[first]].store[call.name]

\* a Set changes the store of its receiver at the name, and nothing else
C14_SetOwnFrame ==
    call'.done /\ call'.fn = String("Set") =>
        /\ Len(envs') = Len(envs)
        /\ \A f \in 1..Len(envs) : f # call'.env => envs'[f] = envs[f]
        /\ envs'[call'.env].outer = envs[call'.env].outer
        /\ DOMAIN envs'[call'.env].store
               = DOMAIN envs[call'.env].store \cup {call'.name}
        /\ \A n \in DOMAIN envs'[call'.env].store :
               envs'[call'.env].store[n]
                   = IF n = call'.name THEN call'.out
                     ELSE envs[call'.env].store[n]

\* C14: Get returns the binding of the innermost frame along the outer
\* chain that binds the name and misses only when no frame of the chain
\* binds it; Set writes the store of the frame it is called on and leaves
\* every other frame, the outer ones included, as it was (shadowing).
C14_GetSetFrames == []C14_GetInnermost /\ [][C14_SetOwnFrame]_vars

\* x is bound to 0 in the outer frame and to 1 in the inner one, and the
\* inner frame's Get has returned 1
C14_Witness ==
    /\ call.done
    /\ call.fn = String("Get")
    /\ call.env = 2
    /\ call.name = "x"
    /\ call.out = Integer(1)
    /\ envs[2].outer = 1
    /\ "x" \in DOMAIN envs[1].store
    /\ envs[1].store["x"] = Integer(0)

\* the binding of name that the frame holds after the statement is the
\* one written by the last "set" event of the given ones for that name
LastSetOf(sets, name) ==
    CHOOSE k \in sets :
        /\ log'[k].node.Name = name
        /\ \A j \in sets : log'[j].node.Name = name => j <= k

\* the "set" event at k was logged while the body of the application
\* logged at i was being evaluated: after it, and before the call
\* expression of i returned
InCall(i, k) ==
    /\ i < k
    /\ \A j \in (i + 1)..(k - 1) :
           ~(log'[j].ev = "exit" /\ log'[j].depth = log'[i].depth)

\* C15: every application of a Function creates a new frame (none that
\* existed before the statement, none used by another application) that
\* encloses the environment the Function captured and starts empty: after
\* the statement it holds just what the binding of the parameters (right
\* before the body) and the let statements evaluated in the body wrote.
\* A let statement writes to the frame of the innermost application it is
\* evaluated in, to the global frame when it is in none. The frames that
\* existed before the statement are unchanged, but for what the program's
\* own let statements wrote to the global frame: no call, recursive or
\* not, writes to the caller's or the captured environment or to the
\* frame of another call.
C15_CallFrames ==
    program' # program =>
        LET applies == {i \in 1..Len(log') : log'[i].ev = "apply"}
            lets == {k \in 1..Len(log') :
                        /\ log'[k].ev = "set"
                        /\ log'[k].node.kind = "LetStatement"}
            globals == {k \in lets : log'[k].env = 1}
        IN  /\ \A i \in applies :
                  LET e == log'[i].env
                      params == log'[i].val.Parameters
                      first == i - Len(params)
                      sets == {k \in 1..Len(log') :
                                  log'[k].ev = "set" /\ log'[k].env = e}
                  IN  /\ e > Len(envs)
                      /\ \A j \in applies : j # i => log'[j].env # e
                      /\ envs'[e].outer = log'[i].val.Env
                      /\ DOMAIN envs'[e].store
                             = {log'[k].node.Name : k \in sets}
                      /\ \A n \in DOMAIN envs'[e].store :
                             envs'[e].store[n] = log'[LastSetOf(sets, n)].val
                      /\ \A k \in 1..Len(params) :
                             /\ first + k - 1 \in sets
                             /\ log'[first + k - 1].node = Identifier(params[k])
                      /\ \A k \in sets : k < i => k >= first
            /\ \A k \in lets :
                  LET around == {i \in applies : InCall(i, k)}
                  IN  log'[k].env
                          = IF around = {} THEN 1
                            ELSE log'[CHOOSE i \in around :
                                         \A j \in around : j <= i].env
            /\ \A f \in 2..Len(envs) : envs'[f] = envs[f]
            /\ envs'[1].outer = envs[1].outer
            /\ \A n \in DOMAIN envs[1].store \cup DOMAIN envs'[1].store :
                   IF \E k \in globals : log'[k].node.Name = n
                   THEN /\ n \in DOMAIN envs'[1].store
                        /\ envs'[1].store[n] = log'[LastSetOf(globals, n)].val
                   ELSE /\ n \in DOMAIN envs[1].store
                        /\ n \in DOMAIN envs'[1].store
                        /\ envs'[1].store[n] = envs[1].store[n]

C15_FreshFrames == [][C15_CallFrames]_vars

\* f(1) with the recursive f has made two calls: the frame of the first
\* binds x to 1, the frame of the second binds x to 0, both enclose the
\* global frame, which binds f alone
C15_Witness ==
    /\ program = <<Let("f", CountDown), Exp(Call(Id("f"), <<Lit(1)>>))>>
    /\ status = "running"
    /\ Len(envs) = 3
    /\ envs[2] = [store |-> [n \in {"x"} |-> Integer(1)], outer |-> 1]
    /\ envs[3] = [store |-> [n \in {"x"} |-> Integer(0)], outer |-> 1]
    /\ DOMAIN envs[1].store = {"f"}

\* C16: a Function holds the environment of its creation itself, not a
\* copy (the object a FunctionLiteral evaluates to has the frame of the
\* evaluation as its Env), so that a let executed after the creation is
\* seen by later calls: in "let f = fn() { f }; f()" the body resolves f
\* to the function itself, in "let f = fn() { x }; let x = a; f()" and in
\* the block "let f = fn() { x }; let x = 1; f()" the call yields the x
\* bound after f was made.
C16_CapturedByReference ==
    /\ \A i \in Enters({"FunctionLiteral"}) :
           Returned(i) =>
               /\ ValueOf(i).Type = FUNCTION_OBJ
               /\ ValueOf(i).Env = log[i].env
    /\ program = <<Let("f", SelfRef), Exp(Call(Id("f"), <<>>))>> =>
           /\ status \in {"running", "returned"}
           /\ result.Type = FUNCTION_OBJ
           /\ result.Body = SelfRef.Body
           /\ result = envs[1].store["f"]
    /\ \A a \in 0..MaxInt :
           program = <<Let("f", ReadX), Let("x", Lit(a)),
                       Exp(Call(Id("f"), <<>>))>> =>
               result = Integer(a)
    /\ program = <<Exp(If(BooleanLit(TRUE),
                          <<Let("f", ReadX), Let("x", Lit(1)),
                            Exp(Call(Id("f"), <<>>))>>))>> =>
           result = Integer(1)

\* let f = fn() { f }; f() has been evaluated and has yielded f
C16_Witness ==
    /\ program = <<Let("f", SelfRef), Exp(Call(Id("f"), <<>>))>>
    /\ result = envs[1].store["f"]
    /\ Len(envs) = 2
    /\ envs[2].outer = 1

\* the bytes skipWhitespace skips
Blank == {32, 9, 10, 13}

\* where the token of a call made at position from starts: the first byte
\* at or after from that is not blank, the end of the input when none is
ScanStart(input, from) ==
    LET rest == {i \in from..(Len(input) - 1) : input[i + 1] \notin Blank}
    IN  IF rest = {} THEN (IF from > Len(input) THEN from ELSE Len(input))
        ELSE CHOOSE i \in rest : \A j \in rest : i <= j

\* C17: == is one EQ token and != one NOT_EQ token, with the two bytes as
\* literal and both bytes consumed; an = or ! that is not immediately
\* followed by = (a blank between them, or the end of the input) is an
\* ASSIGN or BANG token and one byte is consumed; === is EQ then ASSIGN.
C17_TwoByteOperators ==
    /\ \A k \in 1..Len(tokens) :
          LET input == lexer.input
              p == ScanStart(input, tokens[k].from)
              first == input[p + 1]
              followed == p + 1 < Len(input) /\ input[p + 2] = 61
          IN  p < Len(input) /\ first \in {61, 33} =>
                  IF followed
                  THEN /\ tokens[k].tok
                             = Token(IF first = 61 THEN "EQ" ELSE "NOT_EQ",
                                     <<first, 61>>)
                       /\ tokens[k].to = p + 2
                  ELSE /\ tokens[k].tok
                             = Token(IF first = 61 THEN "ASSIGN" ELSE "BANG",
                                     <<first>>)
                       /\ tokens[k].to = p + 1
    /\ lexer.input = <<61, 61, 61>> /\ Len(tokens) >= 2 =>
          /\ tokens[1].tok = Token("EQ", <<61, 61>>)
          /\ tokens[2].tok = Token("ASSIGN", <<61>>)
    /\ lexer.input = <<33, 32, 61>> /\ Len(tokens) >= 2 =>
          /\ tokens[1].tok = Token("BANG", <<33>>)
          /\ tokens[2].tok = Token("ASSIGN", <<61>>)

\* === has been lexed as EQ then ASSIGN
C17_Witness ==
    /\ lexer.input = <<61, 61, 61>>
    /\ Len(tokens) = 2
    /\ tokens[1].tok.Type = "EQ"
    /\ tokens[2].tok.Type = "ASSIGN"
    /\ tokens[2].to = 3

\* the bytes that start a token in the grammar: operators and delimiters,
\* the quote, letters and the underscore, digits
StartsToken(ch) ==
    \/ ch \in {61, 43, 45, 33, 47, 42, 60, 62, 59, 44, 123, 125, 40, 41, 34}
    \/ ch \in 97..122 \/ ch \in 65..90 \/ ch = 95
    \/ ch \in 48..57

\* C18: NextToken returns EOF, with the empty literal, exactly when every
\* byte of the input has been consumed (nothing but blanks is left); after
\* an EOF every later token is EOF; a byte that starts no token is returned
\* as ILLEGAL with that byte as literal, never as EOF.
C18_EofOnlyAtEnd ==
    \A k \in 1..Len(tokens) :
        LET input == lexer.input
            p == ScanStart(input, tokens[k].from)
        IN  /\ tokens[k].tok.Type = "EOF" <=> p >= Len(input)
            /\ tokens[k].tok.Type = "EOF" => tokens[k].tok.Literal = <<>>
            /\ \A j \in 1..(k - 1) :
                  tokens[j].tok.Type = "EOF" => tokens[k].tok.Type = "EOF"
            /\ p < Len(input) /\ ~StartsToken(input[p + 1]) =>
                  tokens[k].tok = Token("ILLEGAL", <<input[p + 1]>>)

\* C19: on a quote NextToken returns one STRING token whose literal is the
\* bytes after the quote up to the next quote, or to the end of the input
\* when there is none, as they are; the quote is never an ILLEGAL token.
C19_StringToken ==
    \A k \in 1..Len(tokens) :
        LET input == lexer.input
            p == ScanStart(input, tokens[k].from)
            closing == {i \in (p + 1)..(Len(input) - 1) : input[i + 1] = 34}
            end == IF closing = {} THEN Len(input)
                   ELSE CHOOSE i \in closing : \A j \in closing : i <= j
        IN  p < Len(input) /\ input[p + 1] = 34 =>
                tokens[k].tok = Token("STRING", SubSeq(input, p + 2, end))

TokenTypes ==
    {"ILLEGAL", "EOF", "IDENT", "INT", "ASSIGN", "PLUS", "MINUS", "BANG",
     "ASTERISK", "SLASH", "LT", "GT", "EQ", "NOT_EQ", "COMMA", "SEMICOLON",
     "LPAREN", "RPAREN", "LBRACE", "RBRACE", "FUNCTION", "LET", "TRUE",
     "FALSE", "IF", "ELSE", "RETURN"}

EofReturned == \E k \in 1..Len(tokens) : tokens[k].tok.Type = "EOF"

\* every call has returned a token and has moved the scan position forward,
\* starting where the call before it stopped; a token that is not EOF covers
\* bytes of the input; without an EOF so far, there are at most as many
\* tokens as the input has bytes
C20_Progress ==
    /\ \A k \in 1..Len(tokens) :
          /\ tokens[k].tok.Type \in TokenTypes
          /\ tokens[k].to > tokens[k].from
          /\ tokens[k].from = IF k = 1 THEN 0 ELSE tokens[k - 1].to
          /\ tokens[k].tok.Type # "EOF" =>
                /\ tokens[k].to <= Len(lexer.input)
                /\ tokens[k].tok.Literal # <<>>
    /\ lexer.position = IF tokens = <<>> THEN 0 ELSE Last(tokens).to
    /\ ~EofReturned => Len(tokens) <= Len(lexer.input)

\* C20: the lexer never fails and the token stream is finite: every call of
\* NextToken returns a token and strictly increases the scan position, so
\* that at most n tokens that are not EOF come before the first EOF for an
\* input of n bytes, and a caller that goes on calling gets an EOF.
C20_FiniteTokenStream == []C20_Progress /\ <>EofReturned

\* a != a has been lexed to the end: three tokens, then EOF
C20_Witness ==
    /\ lexer.input = <<97, 33, 61>>
    /\ Len(tokens) = 3
    /\ tokens[1].tok = Token("IDENT", <<97>>)
    /\ tokens[2].tok = Token("NOT_EQ", <<33, 61>>)
    /\ tokens[3].tok = Token("EOF", <<>>)
    /\ tokens[3].to = 4

----------------------------------------------------------------------------
(* Claims about the parser.                                                *)

\* ParseProgram has returned the program of the source text made of ws
Parsed(ws) == status = "returned" /\ lexer.input = Text(ws)

\* the Identifier the parser makes of the word w
Ident(w) == IdentifierOf(Token("IDENT", Word[w]))

\* the rung of a binary operator on the ladder
\* EQUALS < LESSGREATER < SUM < PRODUCT
Rung(op) ==
    CASE op \in {"==", "!="} -> 1
      [] op \in {"<", ">"} -> 2
      [] op \in {"+", "-"} -> 3
      [] op \in {"*", "/"} -> 4

\* C21: for binary operators op1 and op2 the program of "a op1 b op2 c" is
\* the one expression statement Infix(op2, Infix(op1, a, b), c) when op1 is
\* on the same rung as op2 or above it, and Infix(op1, a, Infix(op2, b, c))
\* when op1 is below op2
C21_BinaryPrecedence ==
    \A op1, op2 \in BinaryOperators :
        Parsed(<<"a", op1, "b", op2, "c">>) =>
            /\ parser.errors = <<>>
            /\ program =
                 <<ExpressionStatement(
                     IF Rung(op1) >= Rung(op2)
                     THEN InfixExpression(
                              Word[op2],
                              InfixExpression(Word[op1], Ident("a"), Ident("b")),
                              Ident("c"))
                     ELSE InfixExpression(
                              Word[op1], Ident("a"),
                              InfixExpression(Word[op2], Ident("b"),
                                              Ident("c"))))>>

\* a + b * c has been parsed into (a + (b * c))
C21_Witness ==
    /\ Parsed(<<"a", "+", "b", "*", "c">>)
    /\ program =
         <<ExpressionStatement(
             InfixExpression(Word["+"], Ident("a"),
                             InfixExpression(Word["*"], Ident("b"),
                                             Ident("c"))))>>

\* C22: the operand of a unary - or ! takes in no binary operator: the
\* program of "u a op b" is Infix(op, Prefix(u, a), b), that of "! - a" is
\* Prefix(!, Prefix(-, a)); a call is taken in: "u a ( b )" is
\* Prefix(u, Call(a, [b]))
C22_PrefixOperand ==
    /\ \A u \in {"-", "!"}, op \in BinaryOperators :
           Parsed(<<u, "a", op, "b">>) =>
               /\ parser.errors = <<>>
               /\ program =
                    <<ExpressionStatement(
                        InfixExpression(
                            Word[op],
                            PrefixExpression(Word[u], Ident("a")),
                            Ident("b")))>>
    /\ Parsed(<<"!", "-", "a">>) =>
           /\ parser.errors = <<>>
           /\ program =
                <<ExpressionStatement(
                    PrefixExpression(
                        Word["!"], PrefixExpression(Word["-"], Ident("a"))))>>
    /\ \A u \in {"-", "!"} :
           Parsed(<<u, "a", "(", "b", ")">>) =>
               /\ parser.errors = <<>>
               /\ program =
                    <<ExpressionStatement(
                        PrefixExpression(
                            Word[u],
                            CallExpression(Ident("a"),
                                           List(<<Ident("b")>>))))>>

\* - a * b has been parsed into ((-a) * b), and - a ( b ) into (-a(b))
C22_Witness ==
    \/ /\ Parsed(<<"-", "a", "*", "b">>)
       /\ program[1].Expression.kind = "InfixExpression"
       /\ program[1].Expression.Left.kind = "PrefixExpression"
    \/ /\ Parsed(<<"-", "a", "(", "b", ")">>)
       /\ program[1].Expression.kind = "PrefixExpression"
       /\ program[1].Expression.Right.kind = "CallExpression"

\* the message parseIntegerLiteral records for the digits s
CouldNotParse(s) == "could not parse \"" \o DigitString(s) \o "\" as integer"

\* C23: the program of a run of digits is the IntegerLiteral of its base-10
\* value when that value is at most 2^63 - 1, and no error is recorded;
\* when it is above, the one error is the could-not-parse message and the
\* expression is absent
C23_DecimalValue ==
    \A s \in IntegerTexts :
        (status = "returned" /\ lexer.input = s) =>
            IF FitsInt64(s, 10)
            THEN /\ parser.errors = <<>>
                 /\ program =
                      <<ExpressionStatement(IntegerLiteral(DigitsValue(s, 10)))>>
            ELSE /\ parser.errors = <<CouldNotParse(s)>>
                 /\ program = <<ExpressionStatement(NoNode)>>

\* the statement is an expression statement of a FunctionLiteral
IsFunctionLiteral(stmt) ==
    /\ stmt.kind = "ExpressionStatement"
    /\ stmt.Expression.kind = "FunctionLiteral"

\* a place of the parameter list ps where a parameter stands holds something
\* else than an identifier: an odd place of ps, or the ) after a last comma
HoldsOtherKind(ps) ==
    \/ \E k \in 1..Len(ps) : k % 2 = 1 /\ ps[k] # "a"
    \/ Len(ps) > 0 /\ Len(ps) % 2 = 0 /\ ps[Len(ps)] = ","

\* C24: in the program of "fn ( ps ) { }" every parameter of a
\* FunctionLiteral comes from an IDENT token; when ps holds another kind of
\* token where a parameter stands an error is recorded and the program has
\* no FunctionLiteral; the empty list gives zero parameters
C24_ParametersAreIdentifiers ==
    \A ps \in ParameterLists :
        Parsed(<<"fn", "(">> \o ps \o <<")", "{", "}">>) =>
            /\ \A k \in 1..Len(program) :
                   IsFunctionLiteral(program[k]) =>
                       /\ ~ program[k].Expression.Parameters.isNil
                       /\ \A i \in 1..Len(program[k].Expression.Parameters.items) :
                              program[k].Expression.Parameters.items[i].Token.Type
                                  = "IDENT"
            /\ HoldsOtherKind(ps) =>
                   /\ parser.errors # <<>>
                   /\ \A k \in 1..Len(program) : ~ IsFunctionLiteral(program[k])
            /\ ps = <<>> =>
                   /\ parser.errors = <<>>
                   /\ program =
                        <<ExpressionStatement(
                            FunctionLiteral(List(<<>>), BlockStatement(<<>>)))>>

\* the sequence a is the beginning of the sequence b
IsPrefix(a, b) == Len(a) <= Len(b) /\ SubSeq(b, 1, Len(a)) = a

\* what an iteration of the loop of ParseProgram leaves: every iteration of a
\* statement loop made in it began on a token that does not end its loop and
\* read at least one token, and no call took a message off the error list
C25_Step ==
    (parser # NoParser /\ parser' # parser) =>
        /\ parser'.read > parser.read
        /\ IsPrefix(parser.errors, parser'.errors)
        /\ \A k \in 1..Len(parser'.trace) :
               /\ IsPrefix(parser'.trace[k].before.errors,
                           parser'.trace[k].after.errors)
               /\ parser'.trace[k].ev = "iteration" =>
                      /\ parser'.trace[k].after.read
                             > parser'.trace[k].before.read
                      /\ parser'.trace[k].before.curToken.Type # "EOF"
                      /\ parser'.trace[k].t = "parseBlockStatement" =>
                             parser'.trace[k].before.curToken.Type # "RBRACE"
        /\ status' = status

\* C25: ParseProgram returns for every source text, and it returns on the
\* token EOF; every iteration of its loop and of the loop of
\* parseBlockStatement reads at least one token, and the error list only
\* grows at its end
C25_Terminates ==
    /\ [][C25_Step]_vars
    /\ [][status' = "returned" => parser.curToken.Type = "EOF"]_vars
    /\ <>(status = "returned")

\* ParseProgram has returned with an error after a statement inside a block
C25_Witness ==
    /\ status = "returned"
    /\ parser.errors # <<>>
    /\ \E k \in 1..Len(parser.trace) :
           /\ parser.trace[k].ev = "iteration"
           /\ parser.trace[k].t = "parseBlockStatement"

\* an expectPeek failed in the statement the trace is of, and the statement
\* has no block whose statements could hide the failure
FailedExpectPeek(trace) ==
    /\ \E k \in 1..Len(trace) : trace[k].ev = "expectPeek" /\ ~ trace[k].ok
    /\ ~ \E k \in 1..Len(trace) :
             trace[k].ev = "iteration" /\ trace[k].t = "parseBlockStatement"

\* an iteration of ParseProgram in whose statement an expectPeek failed adds
\* no statement to Program.Statements, and the loop goes on
C26_Step ==
    (parser # NoParser /\ parser' # parser /\ FailedExpectPeek(parser'.trace)) =>
        /\ program' = program
        /\ status' = "running"
        /\ parser'.read > parser.read

\* C26: when an expectPeek fails while a statement is parsed,
\* Program.Statements gets no statement for it and ParseProgram goes on at
\* the next token
C26_AbsentStatement == [][C26_Step]_vars

\* C27: a call expectPeek(t) on a peek token of kind t returns true, makes
\* the peek token the current one and the next token of the Lexer the peek
\* token, and leaves the error list alone; on any other peek token it
\* returns false, leaves both tokens and the Lexer alone and appends the one
\* message "expected next token to be t, got <peek kind> instead"
C27_ExpectPeek ==
    \A k \in 1..Len(parser.trace) :
        parser.trace[k].ev = "expectPeek" =>
            IF parser.trace[k].before.peekToken.Type = parser.trace[k].t
            THEN /\ parser.trace[k].ok
                 /\ parser.trace[k].after.curToken
                        = parser.trace[k].before.peekToken
                 /\ parser.trace[k].after.peekToken
                        = IF parser.trace[k].before.l = <<>>
                          THEN Token("EOF", <<>>)
                          ELSE Head(parser.trace[k].before.l)
                 /\ parser.trace[k].after.read
                        = parser.trace[k].before.read + 1
                 /\ parser.trace[k].after.errors
                        = parser.trace[k].before.errors
            ELSE /\ ~ parser.trace[k].ok
                 /\ parser.trace[k].after.curToken
                        = parser.trace[k].before.curToken
                 /\ parser.trace[k].after.peekToken
                        = parser.trace[k].before.peekToken
                 /\ parser.trace[k].after.l = parser.trace[k].before.l
                 /\ parser.trace[k].after.read = parser.trace[k].before.read
                 /\ parser.trace[k].after.errors
                        = Append(parser.trace[k].before.errors,
                                 "expected next token to be "
                                     \o parser.trace[k].t \o ", got "
                                     \o parser.trace[k].before.peekToken.Type
                                     \o " instead")

\* one statement with a call of expectPeek that advanced and one that failed
C27_Witness ==
    /\ \E k \in 1..Len(parser.trace) :
           /\ parser.trace[k].ev = "expectPeek"
           /\ parser.trace[k].ok
           /\ parser.trace[k].after.read = parser.trace[k].before.read + 1
    /\ \E k \in 1..Len(parser.trace) :
           /\ parser.trace[k].ev = "expectPeek"
           /\ ~ parser.trace[k].ok
           /\ Len(parser.trace[k].after.errors)
                  = Len(parser.trace[k].before.errors) + 1

\* no node of the tree under n is absent, an Alternative apart: every
\* operand, condition, value, argument, argument list and parameter list is
\* there
RECURSIVE AllPresent(_)
AllPresent(n) ==
    CASE n.kind = "nil" -> FALSE
      [] n.kind = "ExpressionStatement" -> Then(n.Expression, AllPresent)
      [] n.kind = "LetStatement" -> Then(n.LetValue, AllPresent)
      [] n.kind = "ReturnStatement" -> Then(n.ReturnValue, AllPresent)
      [] n.kind = "PrefixExpression" -> Then(n.Right, AllPresent)
      [] n.kind = "InfixExpression" ->
            Then(n.Left, AllPresent) /\ Then(n.Right, AllPresent)
      [] n.kind = "IfExpression" ->
            /\ Then(n.Condition, AllPresent)
            /\ Then(n.Consequence, AllPresent)
            /\ n.Alternative = NoNode \/ Then(n.Alternative, AllPresent)
      [] n.kind = "BlockStatement" ->
            \A k \in 1..Len(n.Statements) : Then(n.Statements[k], AllPresent)
      [] n.kind = "FunctionLiteral" ->
            ~ n.Parameters.isNil /\ Then(n.Body, AllPresent)
      [] n.kind = "CallExpression" ->
            /\ Then(n.Function, AllPresent)
            /\ ~ n.Arguments.isNil
            /\ \A k \in 1..Len(n.Arguments.items) :
                   Then(n.Arguments.items[k], AllPresent)
      [] OTHER -> TRUE

\* while the error list is empty no statement of the program has an absent
\* node
C28_NoErrorNoAbsent ==
    parser.errors = <<>> =>
        \A k \in 1..Len(program) : Then(program[k], AllPresent)

\* an iteration of ParseProgram that adds a statement with an absent node
\* has appended a message to the error list
C28_Step ==
    (parser # NoParser /\ parser' # parser
        /\ \E k \in (Len(program) + 1)..Len(program') :
               ~ Then(program'[k], AllPresent)) =>
        Len(parser'.errors) > Len(parser.errors)

\* C28: when Errors() is empty the program has no absent node: every let
\* value, return value, expression of an expression statement, operand,
\* condition, argument, argument list and parameter list is present; a
\* statement with an absent node comes with a message on the error list
C28_AbsentMeansError == []C28_NoErrorNoAbsent /\ [][C28_Step]_vars

\* ParseProgram has returned without an error a program with a function
\* literal of two parameters
C28_Witness ==
    /\ status = "returned"
    /\ parser.errors = <<>>
    /\ \E k \in 1..Len(program) :
           /\ IsFunctionLiteral(program[k])
           /\ Len(program[k].Expression.Parameters.items) = 2
           /\ Then(program[k], AllPresent)

----------------------------------------------------------------------------
(* The cursor of the Lexer.                                                *)

\* readPosition is one past position, and ch is the byte at position, 0
\* past the end of the input
C29_Cursor ==
    /\ lexer.readPosition = lexer.position + 1
    /\ lexer.ch = IF lexer.position < Len(lexer.input)
                  THEN lexer.input[lexer.position + 1] ELSE 0

\* C29: after New and after every call of NextToken readPosition is
\* position + 1 and ch is input[position], or 0 when position is not below
\* len(input); position never decreases
C29_CursorInvariant ==
    []C29_Cursor /\ [][lexer'.position >= lexer.position]_vars

\* two calls of NextToken have left the Lexer on a byte of the input, and
\* a later call has taken it past the end
C29_Witness ==
    \/ /\ Len(tokens) = 2
       /\ lexer.position < Len(lexer.input)
       /\ lexer.ch = lexer.input[lexer.position + 1]
       /\ lexer.ch # 0
    \/ /\ Len(tokens) > Len(lexer.input)
       /\ lexer.position > Len(lexer.input)
       /\ lexer.ch = 0


============================================================================
